---- MODULE Spec2Model ----
(***************************************************************************)
(* whoop-mcp: the multi-day trend and pattern-detection handlers of the    *)
(* tools whoop_get_recovery, whoop_get_sleep and whoop_get_strain          *)
(* (Spec, SpecStrain), the paged fetch of their records (SpecPaged) and    *)
(* the page loop by itself (SpecFetch), the token handling of              *)
(* WhoopClient.request with two calls in flight (SpecClient), the fetches  *)
(* and the try/catch of the eight tool handlers (SpecHandlers), the grid   *)
(* and the weekday patterns of whoop_get_calendar (SpecCalendar), the      *)
(* workouts of whoop_get_strain in its two modes (SpecWorkouts) and        *)
(* msToHours (SpecDuration).                                               *)
(*                                                                         *)
(* Numbers.  JavaScript numbers are modelled by integers and exact         *)
(* rational arithmetic: a quotient a/b is kept as the pair (a, b) and      *)
(* comparisons are cross-multiplied.  The input values are chosen so that  *)
(* IEEE-754 evaluation of the source expressions gives the same result.    *)
(* HRV and resting heart rate are in whole units, SpO2 in percent, strain  *)
(* in tenths, durations in minutes (the source's milliseconds / 60000).    *)
(* A value printed with one decimal (toFixed(1), Math.round(x*10)/10) is   *)
(* modelled by its number of tenths.                                       *)
(***************************************************************************)
EXTENDS Integers, Sequences, FiniteSets

VARIABLES
    upRecovery,   \* records the upstream holds at /developer/v2/recovery, newest first
    upSleep,      \* records the upstream holds at /developer/v2/activity/sleep
    upCycles,     \* records the upstream holds at /developer/v2/cycle
    upWorkouts,   \* records the upstream holds at /developer/v2/activity/workout
    upCalendar,   \* the month of the calendar and the upstream's payload for it
    upDuration,   \* a duration in a payload of the upstream, in milliseconds
    pc,           \* "idle": no call in progress; "done": a handler has produced its result
    tool,         \* the tool whose handler produced `result`
    records,      \* the handler's local `records` / `cycles`: what the client returned
    result,       \* the value the handler resolved to
    paged,        \* the frame of the fetchPaginated call in progress
    config,       \* the client's credentials: "complete" or "missing"
    tokenData,    \* the client's token, the one field its calls share
    now,          \* Date.now(), in minutes
    issued,       \* how many tokens the auth endpoint has issued
    calls,        \* the frames of the request() calls on the client
    args,         \* the arguments of the single-day call in progress
    pending,      \* the fetches of that call that have not settled
    settled       \* what its fetches have delivered, in the order they settled

\* the upstream's data: no handler writes it
upstream == <<upRecovery, upSleep, upCycles, upWorkouts, upCalendar, upDuration>>

\* the client's authentication state and the request() calls on it
client == <<config, tokenData, now, issued, calls>>

\* the frame of a handler that waits for several fetches
parallel == <<args, pending, settled>>

\* what a handler that is served in one step does not touch
elsewhere == <<paged, client, parallel>>

vars == <<upRecovery, upSleep, upCycles, upWorkouts, upCalendar, upDuration,
          pc, tool, records, result, paged, config, tokenData, now, issued, calls, args, pending, settled>>

----------------------------------------------------------------------------
(* Bounds of the model.                                                    *)

MaxLongWindow == 5     \* longest window of the score-only input families
MaxHrvWindow == 4      \* longest window of the HRV input family
MaxShortWindow == 3    \* longest window of the many-field input families
MaxRestWindow == 7     \* longest window of the rest-day input family
MaxDays == 8           \* largest `days` argument tried

----------------------------------------------------------------------------
(* JavaScript helpers.                                                     *)

\* null / undefined: a field that is not in the JSON payload
Absent == -1

\* x == null
IsNull(x) == x = Absent

\* truthiness of a number-or-absent value: absent and 0 are falsy
Truthy(x) == x # Absent /\ x # 0

\* x || 0
OrZero(x) == IF Truthy(x) THEN x ELSE 0

\* Math.round(a / b) for b > 0: the nearest integer, halves rounded up
RoundDiv(a, b) == (2 * a + b) \div (2 * b)

\* Math.max(a, b), Math.min(a, b)
Max(a, b) == IF a >= b THEN a ELSE b
Min(a, b) == IF a <= b THEN a ELSE b

\* arr.map(r => r.field); arr.filter(p) is SelectSeq(arr, p)
Pluck(s, field) == [i \in 1..Len(s) |-> s[i][field]]

\* arr.reduce((a, b) => a + b, 0)

RECURSIVE SumSeq(_)
SumSeq(s) == IF s = <<>> THEN 0 ELSE Head(s) + SumSeq(Tail(s))

\* arr.slice(from, to) with 0-based from (inclusive) and to (exclusive)
Slice(s, from, to) == SubSeq(s, from + 1, Min(to, Len(s)))

\* the windows of at most maxLen records drawn from D
Windows(D, maxLen) == UNION {[1..k -> D] : k \in 0..maxLen}

\* toolResult(text) / toolError(msg)
toolResult(body) == [isError |-> FALSE, body |-> body]
toolError(msg) == [isError |-> TRUE, body |-> [prefix |-> "Error: ", msg |-> msg]]

NoResult == [isError |-> FALSE, body |-> [msg |-> "none"]]

\* no calendar and no duration among the upstream's data
NoCalendar == [daysInMonth |-> 0, firstDayOfWeek |-> 0, days_of_month |-> <<>>]
NoDuration == 0
ElsewhereUpstream == upCalendar = NoCalendar /\ upDuration = NoDuration

\* no fetchPaginated call is in progress
NoPaged == [limit |-> 0, frac |-> 0, all |-> <<>>, nextToken |-> Absent,
            requests |-> <<>>, pages |-> <<>>]

\* this.tokenData = null
NoToken == [accessToken |-> Absent, expiresAt |-> 0, by |-> 0]

\* the request() calls a handler issues side by side
Calls == {1, 2}

\* no request() call is in progress in this frame
NoCall == [pc |-> "idle", retried |-> FALSE, after |-> "none", error |-> "", trace |-> <<>>]

\* a client that no call has used yet
ClientIdle ==
    /\ config = "complete"
    /\ tokenData = NoToken
    /\ now = 0
    /\ issued = 0
    /\ calls = [c \in Calls |-> NoCall]

\* no single-day call is in progress
NoArgs == [date |-> Absent, days |-> Absent, detail |-> "none"]
ParallelIdle == args = NoArgs /\ pending = {} /\ settled = <<>>

\* every part of the program outside the handlers served in one step is at rest
ElsewhereIdle == paged = NoPaged /\ ClientIdle /\ ParallelIdle /\ ElsewhereUpstream

----------------------------------------------------------------------------
(* WhoopClient: the developer v2 endpoints.                                *)

\* the collected records returned as they are
fetchPaginated_NoSlice(all, limit) == all

\* fetchPaginated(basePath, limit) once the page loop has collected `all`:
\* all.slice(0, limit); against an upstream that serves its records in
\* pages of the requested size, `all` is the upstream's list
fetchPaginated(all, limit) == Slice(all, 0, limit)

getRecoveryV2(limit) == fetchPaginated(upRecovery, limit)
getSleepV2(limit) == fetchPaginated(upSleep, limit)
getCyclesV2(limit) == fetchPaginated(upCycles, limit)
getWorkoutsV2(limit) == fetchPaginated(upWorkouts, limit)

----------------------------------------------------------------------------
(* whoop_get_recovery, multi-day trend.  A recovery record is modelled by  *)
(* the fields of rec.score the handler reads; a record without a score     *)
(* object (rec.score || {}) is the record whose fields are all Absent.     *)

RecoveryRecord(rs, hrv, rhr, spo2) ==
    [recovery_score |-> rs, hrv_rmssd_milli |-> hrv,
     resting_heart_rate |-> rhr, spo2_percentage |-> spo2]

\* let totalRec = 0, ...; let count = 0; let minRec = 100, maxRec = 0
RecoveryLoopInit ==
    [totalRec |-> 0, totalHrv |-> 0, totalRhr |-> 0, totalSpo2 |-> 0,
     count |-> 0, minRec |-> 100, maxRec |-> 0, dailyLines |-> <<>>]

\* mutant: the range is updated before the unscored record is skipped
\* (a null score compares as 0)
RecoveryLoopBody_RangeBeforeSkip(acc, rec) ==
    IF IsNull(rec.recovery_score) THEN [acc EXCEPT !.minRec = Min(0, acc.minRec)]
    ELSE [totalRec |-> acc.totalRec + rec.recovery_score,
          totalHrv |-> acc.totalHrv + OrZero(rec.hrv_rmssd_milli),
          totalRhr |-> acc.totalRhr + OrZero(rec.resting_heart_rate),
          totalSpo2 |-> acc.totalSpo2 + OrZero(rec.spo2_percentage),
          count |-> acc.count + 1,
          minRec |-> IF rec.recovery_score < acc.minRec
                     THEN rec.recovery_score ELSE acc.minRec,
          maxRec |-> IF rec.recovery_score > acc.maxRec
                     THEN rec.recovery_score ELSE acc.maxRec,
          dailyLines |-> Append(acc.dailyLines, rec)]

\* one iteration of `for (const rec of records)`
RecoveryLoopBody(acc, rec) ==
    IF IsNull(rec.recovery_score) THEN acc
    ELSE [totalRec |-> acc.totalRec + rec.recovery_score,
          totalHrv |-> acc.totalHrv + OrZero(rec.hrv_rmssd_milli),
          totalRhr |-> acc.totalRhr + OrZero(rec.resting_heart_rate),
          totalSpo2 |-> acc.totalSpo2 + OrZero(rec.spo2_percentage),
          count |-> acc.count + 1,
          minRec |-> IF rec.recovery_score < acc.minRec
                     THEN rec.recovery_score ELSE acc.minRec,
          maxRec |-> IF rec.recovery_score > acc.maxRec
                     THEN rec.recovery_score ELSE acc.maxRec,
          dailyLines |-> Append(acc.dailyLines, rec)]

RECURSIVE RecoveryLoop(_, _)
RecoveryLoop(recs, k) ==
    IF k = 0 THEN RecoveryLoopInit
    ELSE RecoveryLoopBody(RecoveryLoop(recs, k - 1), recs[k])

\* the averages of the summary lines; avgHrv and avgSpo2 in tenths
avgRec(acc) == RoundDiv(acc.totalRec, acc.count)
avgHrv(acc) == RoundDiv(acc.totalHrv * 10, acc.count)
avgRhr(acc) == RoundDiv(acc.totalRhr, acc.count)
avgSpo2(acc) == RoundDiv(acc.totalSpo2 * 10, acc.count)

\* records.filter(r => r.score?.recovery_score != null).map(r => r.score.recovery_score)
HasRecoveryScore(r) == ~IsNull(r.recovery_score)
recScores(recs) == Pluck(SelectSeq(recs, HasRecoveryScore), "recovery_score")

\* mutant: the threshold taken inclusively
IsLowRecovery_Inclusive(r) == r <= 50

\* r < 50
IsLowRecovery(r) == r < 50

\* recScores.filter(r => r < 50).length
lowDays(recs) == Len(SelectSeq(recScores(recs), IsLowRecovery))

\* if (lowDays >= 3) patterns.push(`Recovery below 50% on ${lowDays} of ${count} days ...`)
LowDaysPattern(recs, count) ==
    IF lowDays(recs) >= 3
    THEN <<[kind |-> "RecoveryBelow50", a |-> lowDays(recs), b |-> count]>>
    ELSE <<>>

\* records.filter(r => r.score?.hrv_rmssd_milli).map(r => r.score.hrv_rmssd_milli)
HasHrv(r) == Truthy(r.hrv_rmssd_milli)
hrvValues(recs) == Pluck(SelectSeq(recs, HasHrv), "hrv_rmssd_milli")

\* hrvValues.slice(Math.floor(hrvValues.length / 2)): the chronologically earlier half
firstHalf(h) == Slice(h, Len(h) \div 2, Len(h))
\* hrvValues.slice(0, Math.floor(hrvValues.length / 2)): the recent half
secondHalf(h) == Slice(h, 0, Len(h) \div 2)

\* mutant: the 0.9 threshold taken inclusively
HrvDeclining_Inclusive(h) ==
    10 * SumSeq(secondHalf(h)) * Len(firstHalf(h))
        <= 9 * SumSeq(firstHalf(h)) * Len(secondHalf(h))

\* avgSecond < avgFirst * 0.9, with avgX = sum(X) / X.length, cross-multiplied
HrvDeclining(h) ==
    10 * SumSeq(secondHalf(h)) * Len(firstHalf(h))
        < 9 * SumSeq(firstHalf(h)) * Len(secondHalf(h))

\* mutant: the operands of the rising test exchanged (avgFirst > avgSecond * 1.1)
HrvRising_Swapped(h) ==
    10 * SumSeq(firstHalf(h)) * Len(secondHalf(h))
        > 11 * SumSeq(secondHalf(h)) * Len(firstHalf(h))

\* avgSecond > avgFirst * 1.1, cross-multiplied
HrvRising(h) ==
    10 * SumSeq(secondHalf(h)) * Len(firstHalf(h))
        > 11 * SumSeq(firstHalf(h)) * Len(secondHalf(h))

\* num(avg): the average printed with one decimal, in tenths
NumAvg(s) == RoundDiv(10 * SumSeq(s), Len(s))

\* if (hrvValues.length >= 3) { ... two independent ifs ... }
HrvPatterns(recs) ==
    LET h == hrvValues(recs) IN
    IF Len(h) >= 3
    THEN (IF HrvDeclining(h)
          THEN <<[kind |-> "HrvDown", a |-> NumAvg(firstHalf(h)), b |-> NumAvg(secondHalf(h))]>>
          ELSE <<>>)
         \o
         (IF HrvRising(h)
          THEN <<[kind |-> "HrvUp", a |-> NumAvg(firstHalf(h)), b |-> NumAvg(secondHalf(h))]>>
          ELSE <<>>)
    ELSE <<>>

\* mutant: the running maximum forgotten (maxConsecLow = consecLow)
ConsecLowBody_NoMax(st, s) ==
    IF IsLowRecovery(s)
    THEN [consecLow |-> st.consecLow + 1, maxConsecLow |-> st.consecLow + 1]
    ELSE [consecLow |-> 0, maxConsecLow |-> st.maxConsecLow]

\* one iteration of `for (const s of recScores)`
ConsecLowBody(st, s) ==
    IF IsLowRecovery(s)
    THEN [consecLow |-> st.consecLow + 1,
          maxConsecLow |-> Max(st.maxConsecLow, st.consecLow + 1)]
    ELSE [consecLow |-> 0, maxConsecLow |-> st.maxConsecLow]

RECURSIVE ConsecLowLoop(_, _)
ConsecLowLoop(scores, k) ==
    IF k = 0 THEN [consecLow |-> 0, maxConsecLow |-> 0]
    ELSE ConsecLowBody(ConsecLowLoop(scores, k - 1), scores[k])

maxConsecLow(recs) == ConsecLowLoop(recScores(recs), Len(recScores(recs))).maxConsecLow

\* if (maxConsecLow >= 3) patterns.push(`${maxConsecLow} consecutive days below 50% recovery.`)
ConsecLowPattern(recs) ==
    IF maxConsecLow(recs) >= 3
    THEN <<[kind |-> "ConsecutiveLow", a |-> maxConsecLow(recs), b |-> 0]>>
    ELSE <<>>

\* the multi-day branch of the handler, after `records` was fetched
RecoveryTrend(recs) ==
    IF Len(recs) = 0 THEN toolResult([msg |-> "No recovery data available."])
    ELSE LET acc == RecoveryLoop(recs, Len(recs)) IN
         IF acc.count = 0
         THEN toolResult([msg |-> "No scored recovery data in this range."])
         ELSE toolResult(
                [msg |-> "Recovery trend", count |-> acc.count,
                 avgRec |-> avgRec(acc), minRec |-> acc.minRec, maxRec |-> acc.maxRec,
                 avgHrv |-> avgHrv(acc), avgRhr |-> avgRhr(acc), avgSpo2 |-> avgSpo2(acc),
                 dailyLines |-> acc.dailyLines,
                 patterns |-> LowDaysPattern(recs, acc.count)
                              \o HrvPatterns(recs)
                              \o ConsecLowPattern(recs)])

\* whoop_get_recovery with days = n > 1
GetRecoveryTrend(n) ==
    /\ pc = "idle"
    /\ n # 1
    /\ records' = getRecoveryV2(n)
    /\ result' = RecoveryTrend(getRecoveryV2(n))
    /\ tool' = "recovery"
    /\ pc' = "done"
    /\ UNCHANGED <<upstream, elsewhere>>

\* the handler's promise has resolved: its locals are gone
Return ==
    /\ pc = "done"
    /\ pc' = "idle"
    /\ tool' = "none"
    /\ records' = <<>>
    /\ result' = NoResult
    /\ paged' = NoPaged
    /\ args' = NoArgs
    /\ pending' = {}
    /\ settled' = <<>>
    /\ UNCHANGED <<upstream, client>>

----------------------------------------------------------------------------
(* Inputs of the recovery tool: three families of upstream windows.        *)

\* recovery scores around the 50% threshold and at the ends of 0..100
ScoreDays ==
    {RecoveryRecord(rs, 50, 55, 96) : rs \in {Absent, 0, 49, 50, 100}}

\* HRV values 10% apart, on scored and unscored days; a measured RMSSD is
\* positive, so HasHrv's truthiness test is true of every value present
HrvDays ==
    {RecoveryRecord(rs, hrv, 55, 96) : rs \in {Absent, 60}, hrv \in {Absent, 45, 50, 55}}

\* days on which any of the per-day metrics may be missing
VitalDays ==
    {RecoveryRecord(rs, hrv, rhr, spo2) :
        rs \in {Absent, 60}, hrv \in {Absent, 50}, rhr \in {Absent, 55}, spo2 \in {Absent, 96}}

RecoveryWindows ==
    Windows(ScoreDays, MaxLongWindow) \cup Windows(HrvDays, MaxHrvWindow)
        \cup Windows(VitalDays, MaxShortWindow)

InitRecovery ==
    /\ upRecovery \in RecoveryWindows
    /\ upSleep = <<>>
    /\ upCycles = <<>>
    /\ upWorkouts = <<>>
    /\ pc = "idle"
    /\ tool = "none"
    /\ records = <<>>
    /\ result = NoResult
    /\ ElsewhereIdle

NextRecovery ==
    \/ \E n \in 2..MaxDays : GetRecoveryTrend(n)
    \/ Return

SpecRecovery == InitRecovery /\ [][NextRecovery]_vars

----------------------------------------------------------------------------
(* whoop_get_sleep, multi-day trend.  A sleep record is modelled by the    *)
(* fields of rec.score and rec.score.stage_summary the handler reads;      *)
(* a record without a stage summary has all its stage fields Absent.       *)

SleepRecord(perf, eff, consist, st) ==
    [sleep_performance_percentage |-> perf,
     sleep_efficiency_percentage |-> eff,
     sleep_consistency_percentage |-> consist,
     total_in_bed_time_milli |-> st[1],
     total_awake_time_milli |-> st[2],
     total_light_sleep_time_milli |-> st[3],
     total_slow_wave_sleep_time_milli |-> st[4],
     total_rem_sleep_time_milli |-> st[5]]

\* let totalPerf = 0, ...; let count = 0
SleepLoopInit ==
    [totalPerf |-> 0, totalEff |-> 0, totalConsist |-> 0,
     totalLightMs |-> 0, totalDeepMs |-> 0, totalRemMs |-> 0, totalAwakeMs |-> 0,
     totalSleepMs |-> 0, count |-> 0, dailyLines |-> <<>>]

\* (st.total_in_bed_time_milli || 0) - (st.total_awake_time_milli || 0)
sleepMs(rec) == OrZero(rec.total_in_bed_time_milli) - OrZero(rec.total_awake_time_milli)

\* sleepMs > 0 ? Math.round((st.total_slow_wave_sleep_time_milli || 0) / sleepMs * 100) : 0
deepPct(rec) ==
    IF sleepMs(rec) > 0
    THEN RoundDiv(OrZero(rec.total_slow_wave_sleep_time_milli) * 100, sleepMs(rec))
    ELSE 0

\* one iteration of `for (const rec of records)`
SleepLoopBody(acc, rec) ==
    IF IsNull(rec.sleep_performance_percentage) THEN acc
    ELSE [totalPerf |-> acc.totalPerf + OrZero(rec.sleep_performance_percentage),
          totalEff |-> acc.totalEff + OrZero(rec.sleep_efficiency_percentage),
          totalConsist |-> acc.totalConsist + OrZero(rec.sleep_consistency_percentage),
          totalSleepMs |-> acc.totalSleepMs + sleepMs(rec),
          totalLightMs |-> acc.totalLightMs + OrZero(rec.total_light_sleep_time_milli),
          totalDeepMs |-> acc.totalDeepMs + OrZero(rec.total_slow_wave_sleep_time_milli),
          totalRemMs |-> acc.totalRemMs + OrZero(rec.total_rem_sleep_time_milli),
          totalAwakeMs |-> acc.totalAwakeMs + OrZero(rec.total_awake_time_milli),
          count |-> acc.count + 1,
          dailyLines |-> Append(acc.dailyLines,
                                [sleepMs |-> sleepMs(rec),
                                 perf |-> rec.sleep_performance_percentage,
                                 deepPct |-> deepPct(rec)])]

RECURSIVE SleepLoop(_, _)
SleepLoop(recs, k) ==
    IF k = 0 THEN SleepLoopInit
    ELSE SleepLoopBody(SleepLoop(recs, k - 1), recs[k])

\* Math.round(totalX / count)
avgPerf(acc) == RoundDiv(acc.totalPerf, acc.count)
avgEff(acc) == RoundDiv(acc.totalEff, acc.count)
avgConsist(acc) == RoundDiv(acc.totalConsist, acc.count)

\* msToHoursDecimal(totalSleepMs / count): hours with one decimal, in tenths
\* (durations are in minutes here: 60 to the hour)
avgSleepH(acc) == RoundDiv(acc.totalSleepMs * 10, acc.count * 60)

\* mutant: the mean of the nights' own percentages instead of sum-then-divide
avgDeepPct_MeanOfRatios(acc) ==
    RoundDiv(SumSeq(Pluck(acc.dailyLines, "deepPct")), acc.count)

\* totalSleepMs > 0 ? Math.round(totalXMs / totalSleepMs * 100) : 0
avgDeepPct(acc) ==
    IF acc.totalSleepMs > 0 THEN RoundDiv(acc.totalDeepMs * 100, acc.totalSleepMs) ELSE 0
avgRemPct(acc) ==
    IF acc.totalSleepMs > 0 THEN RoundDiv(acc.totalRemMs * 100, acc.totalSleepMs) ELSE 0
avgLightPct(acc) ==
    IF acc.totalSleepMs > 0 THEN RoundDiv(acc.totalLightMs * 100, acc.totalSleepMs) ELSE 0

\* records.filter(r => r.score?.sleep_performance_percentage != null).map(...)
HasSleepPerformance(r) == ~IsNull(r.sleep_performance_percentage)
perfs(recs) ==
    Pluck(SelectSeq(recs, HasSleepPerformance), "sleep_performance_percentage")

\* mutant: the threshold taken inclusively
IsLowPerformance_Inclusive(q) == q <= 70

\* p < 70
IsLowPerformance(q) == q < 70

\* perfs.filter(p => p < 70).length
lowPerfDays(recs) == Len(SelectSeq(perfs(recs), IsLowPerformance))

\* if (lowPerfDays >= 3) patterns.push(`Sleep performance below 70% on ${lowPerfDays} of ${count} nights.`)
LowPerfPattern(recs, count) ==
    IF lowPerfDays(recs) >= 3
    THEN <<[kind |-> "PerformanceBelow70", a |-> lowPerfDays(recs), b |-> count]>>
    ELSE <<>>

\* if (avgDeepPct < 15) patterns.push(`Deep sleep averaging only ${avgDeepPct}% ...`)
DeepDeficitPattern(acc) ==
    IF avgDeepPct(acc) < 15
    THEN <<[kind |-> "DeepSleepDeficit", a |-> avgDeepPct(acc), b |-> 0]>>
    ELSE <<>>

\* the multi-day branch of the handler, after `records` was fetched
SleepTrend(recs) ==
    IF Len(recs) = 0 THEN toolResult([msg |-> "No sleep data available."])
    ELSE LET acc == SleepLoop(recs, Len(recs)) IN
         IF acc.count = 0
         THEN toolResult([msg |-> "No scored sleep data in this range."])
         ELSE toolResult(
                [msg |-> "Sleep trend", count |-> acc.count,
                 avgSleepH |-> avgSleepH(acc),
                 avgPerf |-> avgPerf(acc), avgEff |-> avgEff(acc),
                 avgConsist |-> avgConsist(acc),
                 avgLightPct |-> avgLightPct(acc), avgDeepPct |-> avgDeepPct(acc),
                 avgRemPct |-> avgRemPct(acc),
                 dailyLines |-> acc.dailyLines,
                 patterns |-> LowPerfPattern(recs, acc.count) \o DeepDeficitPattern(acc)])

\* whoop_get_sleep with days = n > 1
GetSleepTrend(n) ==
    /\ pc = "idle"
    /\ n # 1
    /\ records' = getSleepV2(n)
    /\ result' = SleepTrend(getSleepV2(n))
    /\ tool' = "sleep"
    /\ pc' = "done"
    /\ UNCHANGED <<upstream, elsewhere>>

----------------------------------------------------------------------------
(* Inputs of the sleep tool: three families of upstream windows.           *)

\* stage summaries <<in bed, awake, light, deep, rem>>, in minutes
NoStages == <<Absent, Absent, Absent, Absent, Absent>>
TypicalStages == <<480, 30, 250, 90, 110>>
StageSummaries ==
    {NoStages,
     <<110, 10, 70, 10, 20>>,     \* 100 asleep, 10 deep
     <<5, 0, 5, 0, 0>>,           \* 5 asleep, no deep sleep
     <<100, 0, 60, 15, 25>>,      \* 100 asleep, 15 deep
     <<100, 10, 52, 13, 25>>}     \* 90 asleep, 13 deep

\* performance around the 70% threshold
PerfNights ==
    {SleepRecord(perf, 90, 80, TypicalStages) : perf \in {Absent, 0, 69, 70}}

\* nights on which efficiency or consistency may be missing
EffNights ==
    {SleepRecord(perf, eff, consist, TypicalStages) :
        perf \in {Absent, 80}, eff \in {Absent, 90}, consist \in {Absent, 80}}

\* nights of different lengths and deep-sleep shares
StageNights ==
    {SleepRecord(perf, 90, 80, st) : perf \in {Absent, 80}, st \in StageSummaries}

SleepWindows ==
    Windows(PerfNights, MaxLongWindow) \cup Windows(EffNights, MaxShortWindow)
        \cup Windows(StageNights, MaxShortWindow)

InitSleep ==
    /\ upRecovery = <<>>
    /\ upSleep \in SleepWindows
    /\ upCycles = <<>>
    /\ upWorkouts = <<>>
    /\ pc = "idle"
    /\ tool = "none"
    /\ records = <<>>
    /\ result = NoResult
    /\ ElsewhereIdle

NextSleep ==
    \/ \E n \in 2..MaxDays : GetSleepTrend(n)
    \/ Return

SpecSleep == InitSleep /\ [][NextSleep]_vars

----------------------------------------------------------------------------
(* whoop_get_strain, multi-day trend.  A cycle is modelled by its strain   *)
(* (in tenths) and its start and end (in hours); the current cycle has no  *)
(* end.  A workout is modelled by its start and its sport name.            *)

CycleRecord(strain, start, end) == [strain |-> strain, start |-> start, end |-> end]

\* Date.now(), in hours
Now == 1010

\* c.end ? new Date(c.end).getTime() : Date.now()
cycleEnd(c) == IF Truthy(c.end) THEN c.end ELSE Now

\* workouts.filter(w => { const t = ...; return t >= cycleStart && t <= cycleEnd; })
cycleWorkouts(c, workouts) ==
    SelectSeq(workouts, LAMBDA w : w.start >= c.start /\ w.start <= cycleEnd(c))

\* let totalStrain = 0, count = 0
StrainLoopInit == [totalStrain |-> 0, count |-> 0, dailyLines |-> <<>>]

\* one iteration of `for (const c of cycles)`
StrainLoopBody(acc, c, workouts) ==
    IF IsNull(c.strain) THEN acc
    ELSE [totalStrain |-> acc.totalStrain + c.strain,
          count |-> acc.count + 1,
          dailyLines |-> Append(acc.dailyLines,
                                [strain |-> c.strain,
                                 workoutNames |-> Pluck(cycleWorkouts(c, workouts), "sport_name")])]

RECURSIVE StrainLoop(_, _, _)
StrainLoop(cycles, workouts, k) ==
    IF k = 0 THEN StrainLoopInit
    ELSE StrainLoopBody(StrainLoop(cycles, workouts, k - 1), cycles[k], workouts)

\* cycles.filter(c => c.score?.strain != null).map(c => c.score.strain)
HasStrain(c) == ~IsNull(c.strain)
strains(cycles) == Pluck(SelectSeq(cycles, HasStrain), "strain")

\* Math.max(...s), Math.min(...s) for a non-empty s
RECURSIVE MaxOf(_)
MaxOf(s) == IF Len(s) = 1 THEN s[1] ELSE Max(Head(s), MaxOf(Tail(s)))
RECURSIVE MinOf(_)
MinOf(s) == IF Len(s) = 1 THEN s[1] ELSE Min(Head(s), MinOf(Tail(s)))

\* num(Math.max(...strains)), num(Math.min(...strains))
maxStrain(cycles) == MaxOf(strains(cycles))
minStrain(cycles) == MinOf(strains(cycles))

\* the test of a high-strain day written as s >= 14
IsHighStrain_Inclusive(x) == x >= 140

\* s > 14 (strain is in tenths)
IsHighStrain(x) == x > 140

\* one iteration of `for (const s of strains)`
ConsecHighBody(st, x) ==
    IF IsHighStrain(x)
    THEN [consecHigh |-> st.consecHigh + 1,
          maxConsecHigh |-> Max(st.maxConsecHigh, st.consecHigh + 1)]
    ELSE [consecHigh |-> 0, maxConsecHigh |-> st.maxConsecHigh]

RECURSIVE ConsecHighLoop(_, _)
ConsecHighLoop(st, k) ==
    IF k = 0 THEN [consecHigh |-> 0, maxConsecHigh |-> 0]
    ELSE ConsecHighBody(ConsecHighLoop(st, k - 1), st[k])

maxConsecHigh(cycles) == ConsecHighLoop(strains(cycles), Len(strains(cycles))).maxConsecHigh

\* if (maxConsecHigh >= 3) patterns.push(`${maxConsecHigh} consecutive high-strain days (>14). ...`)
ConsecHighPattern(cycles) ==
    IF maxConsecHigh(cycles) >= 3
    THEN <<[kind |-> "ConsecutiveHighStrain", a |-> maxConsecHigh(cycles), b |-> 0]>>
    ELSE <<>>

\* s < 4 (strain is in tenths)
IsRestDay(x) == x < 40

\* strains.filter(s => s < 4).length
restDays(cycles) == Len(SelectSeq(strains(cycles), IsRestDay))

\* the rule without its minimum of 7 scored days
NoRestPattern_NoMinimum(cycles, count) ==
    IF restDays(cycles) = 0
    THEN <<[kind |-> "NoRestDays", a |-> 0, b |-> 0]>>
    ELSE <<>>

\* if (restDays === 0 && count >= 7) patterns.push("No rest days in this period.")
NoRestPattern(cycles, count) ==
    IF restDays(cycles) = 0 /\ count >= 7
    THEN <<[kind |-> "NoRestDays", a |-> 0, b |-> 0]>>
    ELSE <<>>

\* the multi-day branch answering a window without scored cycles with an error
StrainTrend_UnscoredIsError(cycles, workouts) ==
    IF Len(cycles) = 0 THEN toolResult([msg |-> "No strain data available."])
    ELSE LET acc == StrainLoop(cycles, workouts, Len(cycles)) IN
         IF acc.count = 0
         THEN toolError("No scored cycles in this range.")
         ELSE toolResult(
                [msg |-> "Strain trend", count |-> acc.count,
                 avgStrain |-> <<acc.totalStrain, acc.count>>,
                 minStrain |-> minStrain(cycles),
                 maxStrain |-> maxStrain(cycles),
                 totalWorkouts |-> Len(workouts),
                 dailyLines |-> acc.dailyLines,
                 patterns |-> ConsecHighPattern(cycles) \o NoRestPattern(cycles, acc.count)])

\* the multi-day branch of the handler, after `cycles` and `workouts` were
\* fetched; avgStrain is kept as the quotient <<totalStrain, count>> that
\* toFixed(1) prints
StrainTrend(cycles, workouts) ==
    IF Len(cycles) = 0 THEN toolResult([msg |-> "No strain data available."])
    ELSE LET acc == StrainLoop(cycles, workouts, Len(cycles)) IN
         IF acc.count = 0
         THEN toolResult([msg |-> "No scored cycles in this range."])
         ELSE toolResult(
                [msg |-> "Strain trend", count |-> acc.count,
                 avgStrain |-> <<acc.totalStrain, acc.count>>,
                 minStrain |-> minStrain(cycles),
                 maxStrain |-> maxStrain(cycles),
                 totalWorkouts |-> Len(workouts),
                 dailyLines |-> acc.dailyLines,
                 patterns |-> ConsecHighPattern(cycles) \o NoRestPattern(cycles, acc.count)])

\* whoop_get_strain with days = n > 1
GetStrainTrend(n) ==
    /\ pc = "idle"
    /\ n # 1
    /\ records' = getCyclesV2(n)
    /\ result' = StrainTrend(getCyclesV2(n), getWorkoutsV2(n * 3))
    /\ tool' = "strain"
    /\ pc' = "done"
    /\ UNCHANGED <<upstream, elsewhere>>

----------------------------------------------------------------------------
(* Inputs of the strain tool: windows of consecutive 24-hour cycles, the   *)
(* newest first and still open.                                            *)

CycleWindow(f) ==
    [i \in 1..Len(f) |->
        CycleRecord(f[i], 1000 - 24 * (i - 1), IF i = 1 THEN Absent ELSE 1024 - 24 * (i - 1))]

\* strains (in tenths) over the whole scale, around 14 and around 4
RangeStrains == {Absent, 0, 39, 40, 140, 141, 210}
HighStrains == {Absent, 140, 141}
RestStrains == {Absent, 39, 40}

StrainWindows ==
    {CycleWindow(f) : f \in Windows(RangeStrains, MaxShortWindow)
                           \cup Windows(HighStrains, MaxLongWindow)
                           \cup Windows(RestStrains, MaxRestWindow)}

InitStrain ==
    /\ upRecovery = <<>>
    /\ upSleep = <<>>
    /\ upCycles \in StrainWindows
    /\ upWorkouts = <<>>
    /\ pc = "idle"
    /\ tool = "none"
    /\ records = <<>>
    /\ result = NoResult
    /\ ElsewhereIdle

NextStrain ==
    \/ \E n \in 2..MaxDays : GetStrainTrend(n)
    \/ Return

SpecStrain == InitStrain /\ [][NextStrain]_vars

----------------------------------------------------------------------------
(* The three tools together: the upstream holds data at one endpoint.      *)

Init == InitRecovery \/ InitSleep \/ InitStrain

Next ==
    \/ \E n \in 2..MaxDays : GetRecoveryTrend(n)
    \/ \E n \in 2..MaxDays : GetSleepTrend(n)
    \/ \E n \in 2..MaxDays : GetStrainTrend(n)
    \/ Return

Spec == Init /\ [][Next]_vars

----------------------------------------------------------------------------
(* The multi-day handlers with the page loop of fetchPaginated unfolded:   *)
(* one step per page the upstream answers.  The upstream is free in what   *)
(* it answers: any stretch of its records (shorter or longer than the      *)
(* requested batch, from any position), with or without a next_token, or   *)
(* a payload without `records`; or the request fails.                      *)

MaxPagedWindow == 3    \* longest upstream list of the paged input families
MaxPagedDays == 3      \* largest `days` argument tried against the page loop
MaxPage == 3           \* longest page the upstream answers

\* const batchSize = Math.min(limit - all.length, 25)
\* `limit` is a JavaScript number: the model writes it as a whole part and
\* a number of halves, limit + frac/2 with frac 0 or 1, and a batch size
\* likewise
MaxBatch == 25
batchSize(limit, all) == Min(limit - Len(all), MaxBatch)
batchHalf(limit, frac, all) == IF limit - Len(all) < MaxBatch THEN frac ELSE 0

\* while (all.length < limit)
wanted(limit, frac, all) == Len(all) < limit + frac

\* a page request that leaves the token out of its path
pageRequest_NoToken(limit, frac, all, token) ==
    [limit |-> batchSize(limit, all), half |-> batchHalf(limit, frac, all),
     nextToken |-> Absent]

\* the path of a page request: limit=${batchSize}, and nextToken=... when
\* the previous page gave one
pageRequest(limit, frac, all, token) ==
    [limit |-> batchSize(limit, all), half |-> batchHalf(limit, frac, all),
     nextToken |-> token]

\* a loop that goes on after an empty page
loopEnds_IgnoresEmptyPage(limit, frac, all, page, token) ==
    token = Absent \/ ~wanted(limit, frac, all)

\* the loop is left after a page: no next_token or no records in it
\* (line 123), or enough collected (line 115); `all` holds the page already
loopEnds(limit, frac, all, page, token) ==
    token = Absent \/ Len(page) = 0 \/ ~wanted(limit, frac, all)

\* all.slice(0, limit) of the loop's collection, limit = whole + frac/2:
\* slice truncates its bound toward zero
sliced(all, limit, frac) == fetchPaginated(all, IF limit < 0 THEN limit + frac ELSE limit)

\* the list the upstream holds at the endpoint of a tool
UpstreamOf(t) ==
    CASE t = "recovery" -> upRecovery
      [] t = "sleep" -> upSleep
      [] t = "strain" -> upCycles
      [] t = "workouts" -> upWorkouts

\* the multi-day branch of a tool's handler, after its fetches
TrendOf(t, recs, limit) ==
    CASE t = "recovery" -> RecoveryTrend(recs)
      [] t = "sleep" -> SleepTrend(recs)
      [] t = "strain" -> StrainTrend(recs, getWorkoutsV2(limit * 3))

\* a multi-day call begins: fetchPaginated(basePath, n) enters its loop
\* (all.length < limit holds for n > 1) and sends its first page request
GetTrendPaged(t, n) ==
    /\ pc = "idle"
    /\ n # 1
    /\ pc' = "paging"
    /\ tool' = t
    /\ paged' = [limit |-> n, frac |-> 0, all |-> <<>>, nextToken |-> Absent,
                 requests |-> <<pageRequest(n, 0, <<>>, Absent)>>, pages |-> <<>>]
    /\ UNCHANGED <<upstream, records, result, client, parallel>>

\* a list method of the client is called by itself, getWorkoutsV2(limit)
\* with limit + frac/2 for its argument: fetchPaginated tests its loop
\* condition and sends the first page request, or returns at once
FetchList(limit, frac) ==
    /\ pc = "idle"
    /\ tool' = "workouts"
    /\ result' = result
    /\ IF wanted(limit, frac, <<>>)
       THEN /\ pc' = "fetching"
            /\ records' = <<>>
            /\ paged' = [limit |-> limit, frac |-> frac, all |-> <<>>, nextToken |-> Absent,
                         requests |-> <<pageRequest(limit, frac, <<>>, Absent)>>,
                         pages |-> <<>>]
       ELSE /\ pc' = "fetched"
            /\ records' = sliced(<<>>, limit, frac)
            /\ paged' = [NoPaged EXCEPT !.limit = limit, !.frac = frac]
    /\ UNCHANGED <<upstream, client, parallel>>

\* the upstream answers the page request with records pos+1 .. pos+k of its
\* list (or without `records`) and with or without a next_token; the loop
\* goes on with the next request or ends, and then the handler computes
\* its result from all.slice(0, limit)
PageArrives(pos, k, hasRecords, hasToken) ==
    /\ pc \in {"paging", "fetching"}
    /\ pos + k <= Len(UpstreamOf(tool))
    /\ ~hasRecords => (pos = 0 /\ k = 0)
    /\ LET page == SubSeq(UpstreamOf(tool), pos + 1, pos + k)
           token == IF hasToken THEN pos + k + 1 ELSE Absent
           all == paged.all \o page
           got == [paged EXCEPT
                     !.all = all,
                     !.pages = Append(@, [records |-> page, hasRecords |-> hasRecords,
                                          next_token |-> token])]
       IN  IF hasToken /\ ~hasRecords
           THEN \* data.records.length on a payload without records
                /\ result' = IF pc = "paging" THEN toolError("TypeError") ELSE result
                /\ records' = <<>>
                /\ pc' = IF pc = "paging" THEN "done" ELSE "threw"
                /\ paged' = got
           ELSE IF loopEnds(paged.limit, paged.frac, all, page, token)
           THEN /\ records' = sliced(all, paged.limit, paged.frac)
                /\ result' = IF pc = "paging"
                             THEN TrendOf(tool, sliced(all, paged.limit, paged.frac), paged.limit)
                             ELSE result
                /\ pc' = IF pc = "paging" THEN "done" ELSE "fetched"
                /\ paged' = got
           ELSE /\ paged' = [got EXCEPT
                                !.nextToken = token,
                                !.requests = Append(@, pageRequest(paged.limit, paged.frac,
                                                                   all, token))]
                /\ UNCHANGED <<pc, records, result>>
    /\ UNCHANGED <<upstream, tool, client, parallel>>

\* the page request fails: request throws, the handler's catch answers
PageFails ==
    /\ pc \in {"paging", "fetching"}
    /\ result' = IF pc = "paging" THEN toolError("WHOOP API 500") ELSE result
    /\ records' = <<>>
    /\ pc' = IF pc = "paging" THEN "done" ELSE "threw"
    /\ UNCHANGED <<upstream, tool, paged, client, parallel>>

\* the caller has taken what the list method returned or threw
Taken ==
    /\ pc \in {"fetched", "threw"}
    /\ pc' = "idle"
    /\ tool' = "none"
    /\ records' = <<>>
    /\ paged' = NoPaged
    /\ UNCHANGED <<upstream, result, client, parallel>>

\* upstream lists of scored and unscored days
PagedRecoveryDays == {RecoveryRecord(Absent, Absent, Absent, Absent), RecoveryRecord(60, 45, 55, 96)}
PagedSleepNights == {SleepRecord(Absent, Absent, Absent, NoStages), SleepRecord(80, 90, 70, TypicalStages)}
PagedStrains == {Absent, 100}

InitPaged ==
    /\ \/ /\ upRecovery \in Windows(PagedRecoveryDays, MaxPagedWindow)
          /\ upSleep = <<>>
          /\ upCycles = <<>>
       \/ /\ upRecovery = <<>>
          /\ upSleep \in Windows(PagedSleepNights, MaxPagedWindow)
          /\ upCycles = <<>>
       \/ /\ upRecovery = <<>>
          /\ upSleep = <<>>
          /\ upCycles \in {CycleWindow(f) : f \in Windows(PagedStrains, MaxPagedWindow)}
    /\ upWorkouts = <<>>
    /\ pc = "idle"
    /\ tool = "none"
    /\ records = <<>>
    /\ result = NoResult
    /\ ElsewhereIdle

NextPaged ==
    \/ \E t \in {"recovery", "sleep", "strain"}, n \in 2..MaxPagedDays : GetTrendPaged(t, n)
    \/ \E pos \in 0..MaxPagedWindow, k \in 0..MaxPage, hasRecords \in BOOLEAN, hasToken \in BOOLEAN :
          PageArrives(pos, k, hasRecords, hasToken)
    \/ PageFails
    \/ Return

SpecPaged == InitPaged /\ [][NextPaged]_vars

\* the page loop by itself, against an upstream list of distinct records
MaxSmallLimit == 3     \* limits up to which every page size is tried

\* the limits tried: none wanted, a few, and one more than a batch holds
Limits == (-1)..MaxSmallLimit \cup {MaxBatch + 1}

\* the sizes of the page the upstream answers a request for b records
\* with: nothing, one short, as asked, one too many; any size when b is small
PageSizes(b) ==
    {k \in {0, b - 1, b, b + 1} : k >= 0}
        \cup (IF b <= MaxSmallLimit THEN 0..(b + 1) ELSE {})

\* records 1 .. MaxBatch + 3, newest first
ListedWorkouts == [i \in 1..(MaxBatch + 3) |-> i]

InitFetch ==
    /\ upRecovery = <<>>
    /\ upSleep = <<>>
    /\ upCycles = <<>>
    /\ upWorkouts = ListedWorkouts
    /\ pc = "idle"
    /\ tool = "none"
    /\ records = <<>>
    /\ result = NoResult
    /\ ElsewhereIdle

NextFetch ==
    \/ \E limit \in Limits, frac \in {0, 1} : FetchList(limit, frac)
    \/ /\ pc = "fetching"
       /\ \E pos \in {0, Len(paged.all)},
             k \in PageSizes(paged.requests[Len(paged.requests)].limit),
             hasRecords \in BOOLEAN, hasToken \in BOOLEAN :
             PageArrives(pos, k, hasRecords, hasToken)
    \/ pc = "fetching" /\ PageFails
    \/ Taken

SpecFetch == InitFetch /\ [][NextFetch]_vars

----------------------------------------------------------------------------
(* WhoopClient: login, ensureToken and request.  The calls of Calls run    *)
(* side by side on the one client the server holds; a call takes a step    *)
(* at each of its awaits.  A call's frame holds its position, its          *)
(* `retried` argument and, as history, the trace of what it has done:      *)
(*   "check":  ensureToken's test; a = token held (Absent if none),        *)
(*             b = minutes until it expires                                *)
(*   "login":  a login has ended; a = token obtained, Absent if it failed  *)
(*   "fetch":  a data fetch was sent; a = token in its Authorization       *)
(*             header, b = the call whose login had obtained that token    *)
(*   "status": a data response arrived; a = its status                     *)
(* and in "check", "fetch" and a successful "login" n = the number of      *)
(* tokens issued so far (0 in the other events).  Time is in               *)
(* minutes; a token is named by its serial number.  The two calls are two  *)
(* fetches of one handler or fetches of two invocations of the tools.      *)

MaxTime == 2           \* how far the clock advances
MaxLogins == 2         \* how many tokens the auth endpoint issues

\* 5 * 60 * 1000 ms
FiveMinutes == 5

\* authResult.ExpiresIn offered by the auth endpoint, in minutes
ExpiresIns == {4, 6}

\* the status of a data response
Statuses == {200, 401, 500}

Event(e, a, b, n) == [e |-> e, a |-> a, b |-> b, n |-> n]

\* a 401 answered by a new login whether or not the call is a retry
shouldRefresh_Always(status, retried) == status = 401

\* resp.status === 401 && !retried
shouldRefresh(status, retried) == status = 401 /\ ~retried

\* the test of ensureToken without its `!this.tokenData ||`
needsLogin_OnlyWhenExpiring(td, t) == td # NoToken /\ td.expiresAt - t < FiveMinutes

\* the test of ensureToken written with <=
needsLogin_Inclusive(td, t) == td = NoToken \/ td.expiresAt - t <= FiveMinutes

\* !this.tokenData || this.tokenData.expiresAt - Date.now() < 5 * 60 * 1000
needsLogin(td, t) == td = NoToken \/ td.expiresAt - t < FiveMinutes

\* `retried` kept in a field of the client instead of the call's argument
markRetried_InClient(c) == [d \in Calls |-> [calls[d] EXCEPT !.retried = TRUE]]

\* the retried argument of this.request(path, true)
markRetried(c) == [calls EXCEPT ![c].retried = TRUE]

\* a login that drops the token held before it throws
failedLogin_Clears(td) == NoToken

\* this.tokenData after a login that threw at line 29, 47 or 51: the
\* assignment of line 64 was not reached
failedLogin(td) == td

\* a call ends by throwing
rejected(call, msg) == [call EXCEPT !.pc = "rejected", !.after = "none", !.error = msg]

\* login() up to its fetch: the credentials are checked, then the auth
\* endpoint is asked; `after` is the await the login belongs to
startLogin(call, after) ==
    IF config = "missing"
    THEN rejected([call EXCEPT !.trace = Append(@, Event("login", Absent, 0, 0))],
                  "Email and password required")
    ELSE [call EXCEPT !.pc = "login", !.after = after]

\* request(path, retried) up to its first await: ensureToken tests the
\* token td at time t and starts a login or resolves
enterRequest(call, td, t) ==
    LET checked == [call EXCEPT
                      !.trace = Append(@, Event("check", td.accessToken,
                                                td.expiresAt - t, issued))]
    IN  IF needsLogin(td, t) THEN startLogin(checked, "ensure")
        ELSE [checked EXCEPT !.pc = "send"]

\* a handler calls request(path)
Request(c) ==
    /\ calls[c].pc = "idle"
    /\ calls' = [calls EXCEPT ![c] = enterRequest(NoCall, tokenData, now)]
    /\ UNCHANGED <<config, tokenData, now, issued>>

\* the auth endpoint answers with a token: login() sets this.tokenData and
\* resolves; ensureToken's login lets the request go on to its fetch, the
\* login after a 401 to this.request(path, true)
LoginSucceeds(c, expiresIn) ==
    /\ calls[c].pc = "login"
    /\ issued < MaxLogins
    /\ issued' = issued + 1
    /\ tokenData' = [accessToken |-> issued + 1, expiresAt |-> now + expiresIn, by |-> c]
    /\ calls' = [calls EXCEPT
                   ![c].trace = Append(@, Event("login", issued + 1, 0, issued + 1)),
                   ![c].pc = IF calls[c].after = "refresh" THEN "retry" ELSE "send",
                   ![c].after = "none"]
    /\ UNCHANGED <<config, now>>

\* the auth endpoint answers with a non-OK status or without an
\* AuthenticationResult: login() throws and this.tokenData stays
LoginFails(c, msg) ==
    /\ calls[c].pc = "login"
    /\ calls' = [calls EXCEPT
                   ![c] = rejected([calls[c] EXCEPT
                                      !.trace = Append(@, Event("login", Absent, 0, 0))], msg)]
    /\ tokenData' = failedLogin(tokenData)
    /\ UNCHANGED <<config, now, issued>>

\* return this.request<T>(path, true)
Retry(c) ==
    /\ calls[c].pc = "retry"
    /\ calls' = [markRetried(c) EXCEPT ![c] = enterRequest(markRetried(c)[c], tokenData, now)]
    /\ UNCHANGED <<config, tokenData, now, issued>>

\* after `await this.ensureToken()`: the Authorization header is built from
\* this.tokenData!.accessToken and the data fetch is sent
Send(c) ==
    /\ calls[c].pc = "send"
    /\ calls' = [calls EXCEPT
                   ![c] = IF tokenData = NoToken
                          THEN rejected(calls[c], "TypeError")
                          ELSE [calls[c] EXCEPT
                                  !.pc = "await",
                                  !.trace = Append(@, Event("fetch", tokenData.accessToken,
                                                            tokenData.by, issued))]]
    /\ UNCHANGED <<config, tokenData, now, issued>>

\* the data response arrives: a 401 on the first attempt starts a login,
\* another non-OK status throws, an OK response is returned
Responds(c, status) ==
    /\ calls[c].pc = "await"
    /\ LET got == [calls[c] EXCEPT !.trace = Append(@, Event("status", status, 0, 0))]
       IN  calls' = [calls EXCEPT
                       ![c] = IF shouldRefresh(status, got.retried) THEN startLogin(got, "refresh")
                              ELSE IF status # 200 THEN rejected(got, "WHOOP API status")
                              ELSE [got EXCEPT !.pc = "resolved"]]
    /\ UNCHANGED <<config, tokenData, now, issued>>

\* the caller has taken the call's outcome: its frame is gone
Settle(c) ==
    /\ calls[c].pc \in {"resolved", "rejected"}
    /\ calls' = [calls EXCEPT ![c] = NoCall]
    /\ UNCHANGED <<config, tokenData, now, issued>>

\* a minute passes
Tick ==
    /\ now < MaxTime
    /\ now' = now + 1
    /\ UNCHANGED <<config, tokenData, issued, calls>>

InitClient ==
    /\ upRecovery = <<>>
    /\ upSleep = <<>>
    /\ upCycles = <<>>
    /\ upWorkouts = <<>>
    /\ pc = "idle"
    /\ tool = "none"
    /\ records = <<>>
    /\ result = NoResult
    /\ paged = NoPaged
    /\ ParallelIdle
    /\ ElsewhereUpstream
    /\ config \in {"complete", "missing"}
    /\ tokenData = NoToken
    /\ now = 0
    /\ issued = 0
    /\ calls = [c \in Calls |-> NoCall]

NextClient ==
    \/ /\ \/ \E c \in Calls : Request(c)
          \/ \E c \in Calls, expiresIn \in ExpiresIns : LoginSucceeds(c, expiresIn)
          \/ \E c \in Calls, msg \in {"Login failed", "No auth result"} : LoginFails(c, msg)
          \/ \E c \in Calls : Retry(c)
          \/ \E c \in Calls : Send(c)
          \/ \E c \in Calls, status \in Statuses : Responds(c, status)
          \/ \E c \in Calls : Settle(c)
          \/ Tick
       /\ UNCHANGED <<upstream, pc, tool, records, result, paged, parallel>>

SpecClient == InitClient /\ [][NextClient]_vars

----------------------------------------------------------------------------
(* The handlers of the eight tools with their fetches unfolded: a call     *)
(* starts its fetches, the fetches settle one by one in any order, and     *)
(* the handler goes on when Promise.all settles.  What a fetch delivers:   *)
(*   "data":      the payload the handler expects; v tells what it holds   *)
(*   "null":      a null payload                                           *)
(*   "malformed": a payload whose `sections` is not an array               *)
(*   "rejected":  the request threw                                        *)
(* Days are numbered; day d begins at hour 24 * d.                         *)

MaxDay == 3            \* the days on which the upstream may hold a record

\* today()
today == MaxDay

Tools == {"recovery", "sleep", "strain", "healthspan", "overview", "body", "journal", "calendar"}

Outcome(fetch, kind, v) == [fetch |-> fetch, kind |-> kind, v |-> v]

\* the fetches a handler starts first
FirstFetches(t, a) ==
    CASE t = "recovery" -> IF a.days = 1 THEN {"recoveryV2", "deepDiveRecovery"} ELSE {"recoveryV2"}
      [] t = "sleep" -> IF a.days = 1 THEN {"sleepV2", "sleepLastNight"} ELSE {"sleepV2"}
      [] t = "strain" -> IF a.days = 1 THEN {"deepDiveStrain", "workoutsV2", "widgetOverview"}
                         ELSE {"cyclesV2", "workoutsV2"}
      [] t = "healthspan" -> {"healthspan"}
      [] t = "overview" -> {"widgetOverview", "home"}
      [] t = "body" -> {"bodyMeasurements"}
      [] t = "journal" -> {"behaviorImpact"}
      [] t = "calendar" -> {"recoveryCalendar"}

\* the fetches a handler makes with .catch(() => null) or inside a try of
\* their own
Supplementary(t, a, f) ==
    \/ t = "recovery" /\ a.days = 1 /\ f = "deepDiveRecovery"
    \/ t = "sleep" /\ a.days = 1 /\ f = "sleepLastNight"
    \/ t = "strain" /\ a.days = 1 /\ f \in {"deepDiveStrain", "widgetOverview"}
    \/ t = "healthspan" /\ f = "healthTab"

\* what a fetch may deliver
Deliveries(f) ==
    IF f \in {"recoveryV2", "sleepV2", "cyclesV2", "workoutsV2"}
    THEN {Outcome(f, "data", 1), Outcome(f, "rejected", 0)}
    ELSE IF f \in {"deepDiveRecovery", "sleepLastNight"}
    THEN {Outcome(f, "data", 1), Outcome(f, "null", 0), Outcome(f, "malformed", 0),
          Outcome(f, "rejected", 0)}
    ELSE IF f \in {"deepDiveStrain", "healthspan"}
    THEN {Outcome(f, "data", 1), Outcome(f, "data", 0), Outcome(f, "null", 0),
          Outcome(f, "malformed", 0), Outcome(f, "rejected", 0)}
    ELSE {Outcome(f, "data", 1), Outcome(f, "null", 0), Outcome(f, "rejected", 0)}

\* a supplementary fetch whose rejection is not caught
catchNull_Rethrow(o) == o

\* promise.catch(() => null)
catchNull(o) == IF o.kind = "rejected" THEN Outcome(o.fetch, "null", 0) ELSE o

\* how a handler's body ends
returns(value) == [kind |-> "return", value |-> value, msg |-> ""]
throws(msg) == [kind |-> "throw", value |-> NoResult, msg |-> msg]

\* a handler without its catch
tryCatch_Rethrow(completion) == completion

\* try { ... } catch (e: any) { return toolError(e.message); }
tryCatch(completion) ==
    IF completion.kind = "throw" THEN returns(toolError(completion.msg)) ELSE completion

\* what the fetch f has delivered among the deliveries `got`
Delivered(got, f) == CHOOSE o \in got : o.fetch = f

\* const d = date || today()
dateOf(a) == IF IsNull(a.date) THEN today ELSE a.date

\* new Date(d + "T00:00:00").getTime(), in hours
dayStart(d) == 24 * d

\* single-day whoop_get_recovery after Promise.all: the newest record of
\* the v2 endpoint, and in full detail the contributors of the deep dive
recoverySingleDay(a, v2Records, deepDive) ==
    IF Len(v2Records) = 0
    THEN returns(toolResult([msg |-> "No recovery data available for this date."]))
    ELSE IF a.detail = "full" /\ deepDive.kind = "malformed" THEN throws("TypeError")
    ELSE returns(toolResult(
           [msg |-> "Recovery",
            date |-> v2Records[1].created_at,
            recovery_score |-> v2Records[1].recovery_score,
            hrv_rmssd_milli |-> v2Records[1].hrv_rmssd_milli,
            resting_heart_rate |-> v2Records[1].resting_heart_rate,
            spo2_percentage |-> v2Records[1].spo2_percentage,
            contributors |-> IF a.detail = "full" /\ deepDive.kind = "data"
                             THEN deepDive.v ELSE Absent]))

\* single-day whoop_get_sleep after Promise.all: formatSingleDay of the
\* newest record, with the sleep stress of the last-night payload
sleepSingleDay(a, sleepRecords, lastNight) ==
    IF Len(sleepRecords) = 0
    THEN returns(toolResult([msg |-> "No sleep data available for this date."]))
    ELSE IF lastNight.kind = "malformed" THEN throws("TypeError")
    ELSE returns(toolResult(
           [msg |-> "Sleep",
            date |-> sleepRecords[1].start,
            sleep_performance_percentage |-> sleepRecords[1].sleep_performance_percentage,
            sleepMs |-> sleepMs(sleepRecords[1]),
            sleepStress |-> IF lastNight.kind = "data" THEN lastNight.v ELSE Absent,
            breakdown |-> a.detail = "full"]))

\* workouts.filter(w => t >= dayStart - 86400000 && t <= dayEnd)
dayWorkouts(d, workouts) ==
    SelectSeq(workouts, LAMBDA w : w.start >= dayStart(d) - 24 /\ w.start <= dayStart(d) + 24)

\* single-day whoop_get_strain after Promise.all: the score of the deep
\* dive's gauge, else of the widget; the calories of the widget; the
\* workouts around the day
strainSingleDay(a, workouts, deepDive, widget) ==
    IF deepDive.kind = "malformed" THEN throws("TypeError")
    ELSE returns(toolResult(
           [msg |-> "Strain",
            date |-> dateOf(a),
            strainScore |-> IF deepDive.kind = "data" /\ deepDive.v = 1 THEN "gauge"
                            ELSE IF widget.kind = "data" THEN "widget" ELSE "none",
            calories |-> IF widget.kind = "data" THEN "widget" ELSE "none",
            activities |-> Pluck(dayWorkouts(dateOf(a), workouts), "start"),
            contributors |-> IF a.detail = "full" /\ deepDive.kind = "data"
                             THEN deepDive.v ELSE Absent]))

\* whoop_get_healthspan: the healthspan payload, and in full detail the
\* metrics of the health tab when its fetch delivered them
healthspanReport(a, got) ==
    LET healthspan == Delivered(got, "healthspan") IN
    IF healthspan.kind \in {"null", "malformed"} THEN throws("TypeError")
    ELSE IF healthspan.v = 0
    THEN returns(toolResult([msg |-> "Healthspan data not available (may still be calibrating)."]))
    ELSE returns(toolResult(
           [msg |-> "Healthspan",
            healthMetrics |-> IF \E o \in got : o.fetch = "healthTab" /\ o.kind = "data"
                              THEN 1 ELSE Absent]))

\* the handlers that format one or two essential payloads: a null payload
\* makes the first property access throw
plainReport(t, got) ==
    IF \E o \in got : o.kind = "null" THEN throws("TypeError")
    ELSE returns(toolResult([msg |-> t]))

\* the body of a tool's handler once all its fetches have delivered `got`
handler(t, a, got) ==
    CASE t = "recovery" ->
           IF a.days = 1
           THEN recoverySingleDay(a, getRecoveryV2(1), Delivered(got, "deepDiveRecovery"))
           ELSE returns(RecoveryTrend(getRecoveryV2(a.days)))
      [] t = "sleep" ->
           IF a.days = 1
           THEN sleepSingleDay(a, getSleepV2(1), Delivered(got, "sleepLastNight"))
           ELSE returns(SleepTrend(getSleepV2(a.days)))
      [] t = "strain" ->
           IF a.days = 1
           THEN strainSingleDay(a, getWorkoutsV2(10), Delivered(got, "deepDiveStrain"),
                                Delivered(got, "widgetOverview"))
           ELSE returns(StrainTrend(getCyclesV2(a.days), getWorkoutsV2(a.days * 3)))
      [] t = "healthspan" -> healthspanReport(a, got)
      [] OTHER -> plainReport(t, got)

\* the records of the developer v2 endpoint the handler works on
fetchedRecords(t, a) ==
    CASE t = "recovery" -> getRecoveryV2(a.days)
      [] t = "sleep" -> getSleepV2(a.days)
      [] t = "strain" -> IF a.days = 1 THEN getWorkoutsV2(10) ELSE getCyclesV2(a.days)
      [] OTHER -> <<>>

\* the arguments a tool takes, after `days || 1` and `detail || "summary"`
ArgsOf(t) ==
    IF t \in {"recovery", "sleep", "strain"}
    THEN [date : {Absent} \cup (1..MaxDay), days : {1, 2}, detail : {"summary", "full"}]
    ELSE IF t = "healthspan"
    THEN [date : {Absent}, days : {Absent}, detail : {"summary", "full"}]
    ELSE IF t = "overview"
    THEN [date : {Absent} \cup (1..MaxDay), days : {Absent}, detail : {"none"}]
    ELSE {NoArgs}

\* a tool is called: its handler starts its first fetches
Invoke(t, a) ==
    /\ pc = "idle"
    /\ pc' = "waiting"
    /\ tool' = t
    /\ args' = a
    /\ pending' = FirstFetches(t, a)
    /\ settled' = <<>>
    /\ UNCHANGED <<upstream, records, result, paged, client>>

\* the set of the deliveries of a sequence, the supplementary ones as the
\* handler sees them
Seen(t, a, deliveries) ==
    {IF Supplementary(t, a, deliveries[i].fetch) THEN catchNull(deliveries[i])
     ELSE deliveries[i] : i \in 1..Len(deliveries)}

\* a fetch settles.  A rejection the handler does not catch at the fetch
\* rejects Promise.all at once and ends the handler in its catch; the last
\* delivery lets the handler run to its end, except that in full detail
\* whoop_get_healthspan goes on to fetch the health tab
Settles(o) ==
    /\ pc = "waiting"
    /\ o.fetch \in pending
    /\ o \in Deliveries(o.fetch)
    /\ settled' = Append(settled, o)
    /\ LET got == Seen(tool, args, Append(settled, o))
           left == pending \ {o.fetch}
           more == /\ tool = "healthspan" /\ o.fetch = "healthspan"
                   /\ o.kind = "data" /\ o.v = 1 /\ args.detail = "full"
           end == IF \E g \in got : g.kind = "rejected"
                  THEN tryCatch(throws("WHOOP API 500"))
                  ELSE tryCatch(handler(tool, args, got))
       IN  IF (\A g \in got : g.kind # "rejected") /\ (left # {} \/ more)
           THEN /\ pending' = IF more THEN {"healthTab"} ELSE left
                /\ UNCHANGED <<pc, records, result>>
           ELSE /\ pending' = {}
                /\ pc' = IF end.kind = "return" THEN "done" ELSE "rejected"
                /\ result' = end.value
                /\ records' = IF \E g \in got : g.kind = "rejected" THEN <<>>
                              ELSE fetchedRecords(tool, args)
    /\ UNCHANGED <<upstream, tool, args, paged, client>>

\* the records the upstream holds for the days of S, newest first
RECURSIVE Descending(_)
Descending(S) ==
    IF S = {} THEN <<>>
    ELSE LET top == CHOOSE x \in S : \A y \in S : y <= x
         IN  <<top>> \o Descending(S \ {top})

DatedRecovery(day) ==
    [created_at |-> day, recovery_score |-> 50 + 10 * day, hrv_rmssd_milli |-> 40 + day,
     resting_heart_rate |-> 55, spo2_percentage |-> 96]

DatedSleep(day) ==
    [start |-> day,
     sleep_performance_percentage |-> 60 + 10 * day,
     sleep_efficiency_percentage |-> 90,
     sleep_consistency_percentage |-> 70,
     total_in_bed_time_milli |-> 480, total_awake_time_milli |-> 30,
     total_light_sleep_time_milli |-> 250, total_slow_wave_sleep_time_milli |-> 90,
     total_rem_sleep_time_milli |-> 110]

\* workouts that start around the bounds of the range of day 2
WorkoutStarts == {23, 24, 72, 73}
Workout(t) == [start |-> t, sport_name |-> "run"]

DatedLists(S) == {Descending(T) : T \in SUBSET S}

InitHandlers ==
    /\ \/ /\ upRecovery \in {[i \in 1..Len(l) |-> DatedRecovery(l[i])] : l \in DatedLists(1..MaxDay)}
          /\ upSleep = <<>>
          /\ upCycles = <<>>
          /\ upWorkouts = <<>>
       \/ /\ upRecovery = <<>>
          /\ upSleep \in {[i \in 1..Len(l) |-> DatedSleep(l[i])] : l \in DatedLists(1..MaxDay)}
          /\ upCycles = <<>>
          /\ upWorkouts = <<>>
       \/ /\ upRecovery = <<>>
          /\ upSleep = <<>>
          /\ upCycles \in {CycleWindow(f) : f \in Windows(PagedStrains, 2)}
          /\ upWorkouts \in {[i \in 1..Len(l) |-> Workout(l[i])] : l \in DatedLists(WorkoutStarts)}
    /\ pc = "idle"
    /\ tool = "none"
    /\ records = <<>>
    /\ result = NoResult
    /\ ElsewhereIdle

NextHandlers ==
    \/ \E t \in Tools : \E a \in ArgsOf(t) : Invoke(t, a)
    \/ \E f \in {"recoveryV2", "sleepV2", "cyclesV2", "workoutsV2", "deepDiveRecovery",
                  "sleepLastNight", "deepDiveStrain", "widgetOverview", "healthspan",
                  "healthTab", "home", "bodyMeasurements", "behaviorImpact",
                  "recoveryCalendar"} :
          \E o \in Deliveries(f) : Settles(o)
    \/ Return

SpecHandlers == InitHandlers /\ [][NextHandlers]_vars

----------------------------------------------------------------------------
(* whoop_get_calendar.  The month is what Date makes of it: its number of  *)
(* days and the weekday of its first day (getDay: 0 = Sunday).  An entry   *)
(* of days_of_month carries parseInt(date_value_display), Absent when that *)
(* is NaN.  A row of the grid is the sequence of its cells, the four       *)
(* blanks of an empty column being a cell of their own.                    *)

stateEmoji(state) ==
    CASE state = "HIGH_RECOVERY" -> "green"
      [] state = "MEDIUM_RECOVERY" -> "yellow"
      [] state = "LOW_RECOVERY" -> "red"
      [] OTHER -> "blank"

\* the entries that set dayMap's value for day n, in the order of the payload
dayMapSets(days, n) ==
    {i \in 1..Len(days) :
        days[i].has_data /\ days[i].date_value_display # Absent
                         /\ days[i].date_value_display = n}

\* dayMap.get(n): the state the last of them set
dayMapGet(days, n) ==
    days[CHOOSE i \in dayMapSets(days, n) : \A j \in dayMapSets(days, n) : j <= i].day_state

\* a grid that takes getDay's number for the column
monBasedFirst_SundayFirst(firstDayOfWeek) == firstDayOfWeek

\* firstDayOfWeek === 0 ? 6 : firstDayOfWeek - 1
monBasedFirst(firstDayOfWeek) == IF firstDayOfWeek = 0 THEN 6 ELSE firstDayOfWeek - 1

NoStats == [total |-> 0, low |-> 0, medium |-> 0, high |-> 0, count |-> 0]

\* the four updates of weekdayStats[weekdayIdx] for a day with data
countDay(ws, state) ==
    [ws EXCEPT !.high = @ + (IF state = "HIGH_RECOVERY" THEN 1 ELSE 0),
               !.medium = @ + (IF state = "MEDIUM_RECOVERY" THEN 1 ELSE 0),
               !.low = @ + (IF state = "LOW_RECOVERY" THEN 1 ELSE 0),
               !.count = @ + 1]

\* "    ": an empty column before the first day
PadCell == [day |-> 0, mark |-> "pad"]

\* the loop over the days of the month, from its state before day dayNum
RECURSIVE gridLoop(_, _, _, _, _, _, _)
gridLoop(i, dayNum, weekLine, lines, weekdayStats, daysInMonth, days) ==
    IF ~(dayNum <= daysInMonth)
    THEN [lines |-> lines, weekdayStats |-> weekdayStats]
    ELSE LET d == dayMapSets(days, dayNum) # {}
             weekdayIdx == i % 7
             cell == [day |-> dayNum,
                      mark |-> IF d THEN stateEmoji(dayMapGet(days, dayNum)) ELSE "none"]
             stats == IF d THEN [weekdayStats EXCEPT
                                   ![weekdayIdx] = countDay(@, dayMapGet(days, dayNum))]
                      ELSE weekdayStats
             rowEnds == weekdayIdx = 6 \/ dayNum + 1 > daysInMonth
         IN  gridLoop(i + 1, dayNum + 1,
                      IF rowEnds THEN <<>> ELSE Append(weekLine, cell),
                      IF rowEnds THEN Append(lines, Append(weekLine, cell)) ELSE lines,
                      stats, daysInMonth, days)

\* the grid and the weekday statistics of a month
grid(cal) ==
    gridLoop(monBasedFirst(cal.firstDayOfWeek), 1,
             [j \in 1..monBasedFirst(cal.firstDayOfWeek) |-> PadCell], <<>>,
             [w \in 0..6 |-> NoStats], cal.daysInMonth, cal.days_of_month)

\* the counts of the summary line
summary(days) ==
    LET withData == {i \in 1..Len(days) : days[i].has_data}
        inState(st) == Cardinality({i \in withData : days[i].day_state = st})
    IN  [greenCount |-> inState("HIGH_RECOVERY"),
         yellowCount |-> inState("MEDIUM_RECOVERY"),
         redCount |-> inState("LOW_RECOVERY"),
         totalDays |-> Cardinality(withData)]

\* weekdayStats.map(...).filter(Boolean), for the weekdays from w on
RECURSIVE weekdayScoresFrom(_, _)
weekdayScoresFrom(weekdayStats, w) ==
    IF w > 6 THEN <<>>
    ELSE LET ws == weekdayStats[w]
             rest == weekdayScoresFrom(weekdayStats, w + 1)
         IN  IF ws.count = 0 THEN rest
             ELSE <<[name |-> w,
                     score |-> RoundDiv(ws.high * 100 + ws.medium * 50 + ws.low * 17, ws.count),
                     count |-> ws.count, low |-> ws.low]>> \o rest

weekdayScores(weekdayStats) == weekdayScoresFrom(weekdayStats, 0)

\* [...weekdayScores].sort((a, b) => a.score - b.score): the sort is stable
RECURSIVE insertByScore(_, _)
insertByScore(sorted, x) ==
    IF sorted = <<>> THEN <<x>>
    ELSE IF sorted[Len(sorted)].score <= x.score THEN Append(sorted, x)
    ELSE Append(insertByScore(SubSeq(sorted, 1, Len(sorted) - 1), x), sorted[Len(sorted)])

RECURSIVE sortByScore(_)
sortByScore(scores) ==
    IF scores = <<>> THEN <<>>
    ELSE insertByScore(sortByScore(SubSeq(scores, 1, Len(scores) - 1)), scores[Len(scores)])

\* a section that asks for four weekdays only
enoughWeekdays_Four(scores) == Len(scores) >= 4

\* weekdayScores.length >= 5
enoughWeekdays(scores) == Len(scores) >= 5

NoPatterns == [emitted |-> FALSE]

\* the 'Weekday patterns' section
weekdayPatterns(scores) ==
    IF enoughWeekdays(scores)
    THEN LET sorted == sortByScore(scores)
             worst == sorted[1]
             best == sorted[Len(sorted)]
         IN  IF best.score - worst.score > 15
             THEN [emitted |-> TRUE,
                   best |-> [name |-> best.name, score |-> best.score],
                   worst |-> [name |-> worst.name, score |-> worst.score]]
             ELSE NoPatterns
    ELSE NoPatterns

\* the handler's result for the payload of a month
calendarReport(cal) ==
    toolResult([msg |-> "Recovery calendar",
                rows |-> grid(cal).lines,
                summary |-> summary(cal.days_of_month),
                patterns |-> weekdayPatterns(weekdayScores(grid(cal).weekdayStats))])

\* whoop_get_calendar is called for the month the upstream holds
GetCalendar ==
    /\ pc = "idle"
    /\ upCalendar # NoCalendar
    /\ pc' = "done"
    /\ tool' = "calendar"
    /\ records' = <<>>
    /\ result' = calendarReport(upCalendar)
    /\ UNCHANGED <<upstream, elsewhere>>

\* the months and payloads tried
FreeWeekdays == 3      \* weekdays whose days vary on their own; the others vary together

\* what the days of a weekday are, week by week
Profiles == {"none", "high", "mostlyMedium"}

profileState(p, week) ==
    CASE p = "high" -> "HIGH_RECOVERY"
      [] p = "medium" -> "MEDIUM_RECOVERY"
      [] p = "mostlyMedium" -> IF week = 1 THEN "LOW_RECOVERY" ELSE "MEDIUM_RECOVERY"
      [] OTHER -> "NO_DATA"

WeekdayProfiles ==
    {[w \in 0..6 |-> IF w < FreeWeekdays THEN f[w] ELSE rest] :
        f \in [0..(FreeWeekdays - 1) -> Profiles], rest \in Profiles}

\* one entry for each day of the month, in order
MonthDays(daysInMonth, firstDayOfWeek, prof) ==
    [k \in 1..daysInMonth |->
        LET w == (firstDayOfWeek + 6 + k - 1) % 7
        IN  [date_value_display |-> k,
             has_data |-> prof[w] # "none",
             day_state |-> profileState(prof[w], (k - 1) \div 7 + 1)]]

\* what else a payload may hold: an entry whose day is not a number, a
\* second entry for day 1, with and without data, a state of no colour
ExtraDays ==
    {<<>>,
     <<[date_value_display |-> Absent, has_data |-> TRUE, day_state |-> "HIGH_RECOVERY"]>>,
     <<[date_value_display |-> 1, has_data |-> TRUE, day_state |-> "LOW_RECOVERY"]>>,
     <<[date_value_display |-> 1, has_data |-> FALSE, day_state |-> "HIGH_RECOVERY"]>>,
     <<[date_value_display |-> 2, has_data |-> TRUE, day_state |-> "PENDING"]>>}

Calendar(n, f, prof, extra) ==
    [daysInMonth |-> n, firstDayOfWeek |-> f, days_of_month |-> MonthDays(n, f, prof) \o extra]

\* every length of month with every first weekday, for two kinds of month
GridProfiles ==
    {[w \in 0..6 |-> "mostlyMedium"], [w \in 0..6 |-> IF w % 2 = 0 THEN "high" ELSE "none"]}

\* three months (28 days from a Monday, 30 from a Thursday, 31 from a
\* Sunday) for every choice of the weekdays' days
PatternMonths == {<<28, 1>>, <<30, 4>>, <<31, 0>>}
PatternExtras ==
    {e \in ExtraDays : e = <<>> \/ (e[1].has_data /\ e[1].date_value_display # Absent)}

Calendars ==
    {Calendar(n, f, prof, extra) :
        n \in 28..31, f \in 0..6, prof \in GridProfiles, extra \in ExtraDays}
    \cup {Calendar(m[1], m[2], prof, extra) :
             m \in PatternMonths, prof \in WeekdayProfiles, extra \in PatternExtras}

InitCalendar ==
    /\ upRecovery = <<>>
    /\ upSleep = <<>>
    /\ upCycles = <<>>
    /\ upWorkouts = <<>>
    /\ upCalendar \in Calendars
    /\ upDuration = NoDuration
    /\ pc = "idle"
    /\ tool = "none"
    /\ records = <<>>
    /\ result = NoResult
    /\ paged = NoPaged
    /\ ClientIdle
    /\ ParallelIdle

NextCalendar == GetCalendar \/ Return

SpecCalendar == InitCalendar /\ [][NextCalendar]_vars

----------------------------------------------------------------------------
(* whoop_get_strain in its two modes over the same workouts: the upstream  *)
(* holds consecutive cycles, the end of one being the start of the next,   *)
(* and workouts that start at and around the bounds of the cycles and of   *)
(* the ranges of two days.  Each workout has a sport of its own.           *)

MaxAssocCycles == 3    \* longest list of cycles
MaxAssocWorkouts == 2  \* longest list of workouts

\* days 41 and 42 begin at hours 984 and 1008
AssocDates == {41, 42}

\* hours around 960 and 1008 (the range of day 41), 976 and 1000 (where a
\* cycle ends and the next starts) and 1010 (Date.now())
AssocStarts == {959, 960, 976, 1000, 1008, 1009, 1010, 1011}

SportAt(t) ==
    CASE t = 959 -> "walk" [] t = 960 -> "swim" [] t = 976 -> "row" [] t = 1000 -> "run"
      [] t = 1008 -> "yoga" [] t = 1009 -> "golf" [] t = 1010 -> "ski" [] OTHER -> "hike"

Session(t) == [start |-> t, sport_name |-> SportAt(t)]

SessionLists ==
    {[i \in 1..Len(l) |-> Session(l[i])] :
        l \in {Descending(T) : T \in {U \in SUBSET AssocStarts : Cardinality(U) <= MaxAssocWorkouts}}}

InitWorkouts ==
    /\ upRecovery = <<>>
    /\ upSleep = <<>>
    /\ upCycles \in {CycleWindow(f) : f \in Windows(PagedStrains, MaxAssocCycles)}
    /\ upWorkouts \in SessionLists
    /\ pc = "idle"
    /\ tool = "none"
    /\ records = <<>>
    /\ result = NoResult
    /\ ElsewhereIdle

NextWorkouts ==
    \/ \E n \in 2..MaxAssocCycles : GetStrainTrend(n)
    \/ \E d \in AssocDates : Invoke("strain", [date |-> d, days |-> 1, detail |-> "summary"])
    \/ \E f \in {"deepDiveStrain", "workoutsV2", "widgetOverview"} :
          \E o \in Deliveries(f) : Settles(o)
    \/ Return

SpecWorkouts == InitWorkouts /\ [][NextWorkouts]_vars

----------------------------------------------------------------------------
(* msToHours, as formatSingleDay applies it to the time in bed of a sleep  *)
(* record.  Durations are in milliseconds here.  The text H:MM is the pair *)
(* of H and of the characters of MM.                                       *)

MsPerHour == 3600000
MsPerMinute == 60000

\* m.toString().padStart(2, "0"): the digits of m, a 0 before a single one
padStart2(m) == IF m < 10 THEN <<0, m>> ELSE <<m \div 10, m % 10>>

\* Math.floor(ms / 3600000) and Math.round((ms % 3600000) / 60000)
msToHours(ms) ==
    [h |-> ms \div MsPerHour,
     mm |-> padStart2(RoundDiv(ms % MsPerHour, MsPerMinute))]

\* const inBed = msToHours(stages.total_in_bed_time_milli || 0)
FormatInBed ==
    /\ pc = "idle"
    /\ pc' = "done"
    /\ tool' = "sleep"
    /\ records' = <<>>
    /\ result' = toolResult([msg |-> "In bed", inBed |-> msToHours(OrZero(upDuration))])
    /\ UNCHANGED <<upstream, elsewhere>>

MaxHours == 2          \* the longest durations tried, in hours

\* durations around the minutes and half minutes of an hour
Durations ==
    {h * MsPerHour + m * MsPerMinute + sec * 1000 + ms :
        h \in 0..MaxHours, m \in {0, 9, 10, 29, 58, 59}, sec \in {0, 29, 30, 59},
        ms \in {0, 499, 500, 999}}

InitDuration ==
    /\ upRecovery = <<>>
    /\ upSleep = <<>>
    /\ upCycles = <<>>
    /\ upWorkouts = <<>>
    /\ upCalendar = NoCalendar
    /\ upDuration \in Durations
    /\ pc = "idle"
    /\ tool = "none"
    /\ records = <<>>
    /\ result = NoResult
    /\ paged = NoPaged
    /\ ClientIdle
    /\ ParallelIdle

NextDuration == FormatInBed \/ Return

SpecDuration == InitDuration /\ [][NextDuration]_vars

----------------------------------------------------------------------------
(* Properties of the multi-day recovery report.                            *)

\* a multi-day recovery report has been produced from `records`
RecoveryReported ==
    pc = "done" /\ tool = "recovery" /\ result.body.msg = "Recovery trend"

\* the report lists a pattern of this kind
Flagged(kind) ==
    \E i \in 1..Len(result.body.patterns) : result.body.patterns[i].kind = kind

\* the pattern of this kind the report lists
PatternOf(kind) ==
    result.body.patterns[CHOOSE i \in 1..Len(result.body.patterns) :
                             result.body.patterns[i].kind = kind]

\* the values of a field over the records in which it is present, newest first
Present(recs, field) ==
    Pluck(SelectSeq(recs, LAMBDA r : r[field] # Absent), field)

\* the scored days of the window: the records with a recovery score
ScoredDays == SelectSeq(records, LAMBDA r : r.recovery_score # Absent)

\* C1's H, recent = H[0..m) and earlier = H[m..], m = floor(|H| / 2)
HrvH == Present(records, "hrv_rmssd_milli")
HrvRecent == SubSeq(HrvH, 1, Len(HrvH) \div 2)
HrvEarlier == SubSeq(HrvH, Len(HrvH) \div 2 + 1, Len(HrvH))

\* avg(s) < (num / den) * avg(t), for non-empty s and t
AvgLess(s, num, den, t) == den * SumSeq(s) * Len(t) < num * SumSeq(t) * Len(s)
\* avg(s) > (num / den) * avg(t), for non-empty s and t
AvgMore(s, num, den, t) == den * SumSeq(s) * Len(t) > num * SumSeq(t) * Len(s)

\* C1: with H the present HRV values (newest first) and the halves recent,
\* earlier split at floor(|H|/2): 'HRV trending down' is in the report exactly
\* when |H| >= 3 and avg(recent) < 0.9 * avg(earlier), 'HRV trending up' exactly
\* when |H| >= 3 and avg(recent) > 1.1 * avg(earlier); so neither at equality
\* with a threshold, and neither when |H| < 3.
C1_HrvTrend ==
    RecoveryReported =>
        /\ Flagged("HrvDown") <=>
              (Len(HrvH) >= 3 /\ AvgLess(HrvRecent, 9, 10, HrvEarlier))
        /\ Flagged("HrvUp") <=>
              (Len(HrvH) >= 3 /\ AvgMore(HrvRecent, 11, 10, HrvEarlier))

\* a report with the down flag, from a window in which a day has no HRV value
C1_Witness ==
    /\ RecoveryReported
    /\ Flagged("HrvDown")
    /\ Len(HrvH) < Len(records)

\* C2: the report never lists both 'HRV trending down' and 'HRV trending up'.
C2_OneHrvFlag ==
    RecoveryReported => ~(Flagged("HrvDown") /\ Flagged("HrvUp"))

\* a report with the up flag and no down flag
C2_Witness ==
    RecoveryReported /\ Flagged("HrvUp") /\ ~Flagged("HrvDown") /\ Len(HrvH) >= 4

\* the lengths of the runs of adjacent entries below 50 in the series of
\* scored values
LowRunLengths ==
    LET sc == Present(records, "recovery_score") IN
    {len \in 1..Len(sc) :
        \E i \in 1..(Len(sc) - len + 1) : \A k \in i..(i + len - 1) : sc[k] < 50}

LongestLowRun ==
    IF LowRunLengths = {} THEN 0
    ELSE CHOOSE len \in LowRunLengths : \A other \in LowRunLengths : other <= len

\* C3: 'consecutive days below 50% recovery' is in the report exactly when the
\* longest run of adjacent scored values below 50 has length >= 3, and the
\* number it reports is the length of the longest run.
C3_ConsecutiveLow ==
    RecoveryReported =>
        /\ Flagged("ConsecutiveLow") <=> LongestLowRun >= 3
        /\ Flagged("ConsecutiveLow") => PatternOf("ConsecutiveLow").a = LongestLowRun

\* the longest run is neither the first nor the last run of the series
C3_Witness ==
    /\ RecoveryReported
    /\ Flagged("ConsecutiveLow")
    /\ LET sc == Present(records, "recovery_score") IN
          /\ Len(sc) = 5
          /\ sc[1] < 50 /\ sc[2] >= 50 /\ sc[3] < 50 /\ sc[4] < 50 /\ sc[5] < 50

\* the number of scored days with a score strictly below 50
LowDayCount ==
    Cardinality({i \in 1..Len(ScoredDays) : ScoredDays[i].recovery_score < 50})

\* C4: 'Recovery below 50%' is in the report exactly when at least 3 scored
\* days have a score < 50, and it reports that number and the number of
\* scored days.
C4_LowDays ==
    RecoveryReported =>
        /\ Flagged("RecoveryBelow50") <=> LowDayCount >= 3
        /\ Flagged("RecoveryBelow50") =>
              /\ PatternOf("RecoveryBelow50").a = LowDayCount
              /\ PatternOf("RecoveryBelow50").b = Len(ScoredDays)

\* three low days that are not adjacent, a day at exactly 50 and an unscored day
C4_Witness ==
    /\ RecoveryReported
    /\ Flagged("RecoveryBelow50")
    /\ ~Flagged("ConsecutiveLow")
    /\ \E i \in 1..Len(records) : records[i].recovery_score = 50
    /\ \E i \in 1..Len(records) : records[i].recovery_score = Absent

\* the average of the present values of a field over the scored days, in
\* units of 1/scale, rounded to the nearest
PresentAvg(field, scale) ==
    RoundDiv(scale * SumSeq(Present(ScoredDays, field)), Len(Present(ScoredDays, field)))

\* C5: each per-day average of the report (HRV, resting heart rate, SpO2) is
\* the sum of the values present divided by the number of scored days on
\* which the metric is present.
C5_AveragesSkipAbsent ==
    RecoveryReported =>
        /\ Len(Present(ScoredDays, "hrv_rmssd_milli")) > 0 =>
              result.body.avgHrv = PresentAvg("hrv_rmssd_milli", 10)
        /\ Len(Present(ScoredDays, "resting_heart_rate")) > 0 =>
              result.body.avgRhr = PresentAvg("resting_heart_rate", 1)
        /\ Len(Present(ScoredDays, "spo2_percentage")) > 0 =>
              result.body.avgSpo2 = PresentAvg("spo2_percentage", 10)

\* C6: when a metric is absent on every scored day of the window, the report
\* gives its average as a placeholder (Absent), not as a number.
C6_AbsentAverageIsPlaceholder ==
    RecoveryReported =>
        /\ Len(Present(ScoredDays, "hrv_rmssd_milli")) = 0 => result.body.avgHrv = Absent
        /\ Len(Present(ScoredDays, "resting_heart_rate")) = 0 => result.body.avgRhr = Absent
        /\ Len(Present(ScoredDays, "spo2_percentage")) = 0 => result.body.avgSpo2 = Absent

----------------------------------------------------------------------------
(* Properties of the multi-day sleep report.                               *)

SleepReported ==
    pc = "done" /\ tool = "sleep" /\ result.body.msg = "Sleep trend"

\* the scored nights of the window: the records with a sleep performance
ScoredNights == SelectSeq(records, LAMBDA r : r.sleep_performance_percentage # Absent)

\* the sum of a stage field over the scored nights (an absent duration adds nothing)
StageSum(field) == SumSeq(Present(ScoredNights, field))

\* asleep time over the scored nights: in bed minus awake
AsleepSum == StageSum("total_in_bed_time_milli") - StageSum("total_awake_time_milli")

\* C8: each stage percentage of the report is the stage's time summed over the
\* scored nights, divided by the asleep time (in bed minus awake) summed over
\* the scored nights, as a rounded percentage.
C8_SumThenDivide ==
    (SleepReported /\ AsleepSum > 0) =>
        /\ result.body.avgDeepPct =
              RoundDiv(100 * StageSum("total_slow_wave_sleep_time_milli"), AsleepSum)
        /\ result.body.avgRemPct =
              RoundDiv(100 * StageSum("total_rem_sleep_time_milli"), AsleepSum)
        /\ result.body.avgLightPct =
              RoundDiv(100 * StageSum("total_light_sleep_time_milli"), AsleepSum)

\* the nights 10 deep of 100 asleep and 0 deep of 5 asleep: 10/105, shown as 10%
C8_Witness ==
    /\ SleepReported
    /\ Len(ScoredNights) = 2
    /\ StageSum("total_slow_wave_sleep_time_milli") = 10
    /\ AsleepSum = 105
    /\ \E i \in 1..2 : ScoredNights[i].total_slow_wave_sleep_time_milli = 0
    /\ result.body.avgDeepPct = 10

\* C9: the deep-sleep-deficit pattern is in the report exactly when the
\* window's deep-sleep fraction (defined when some time was spent asleep) is
\* strictly below 15%: 100 * totalDeepMs < 15 * totalSleepMs.
C9_DeepDeficitBelow15 ==
    (SleepReported /\ AsleepSum > 0) =>
        (Flagged("DeepSleepDeficit") <=>
            100 * StageSum("total_slow_wave_sleep_time_milli") < 15 * AsleepSum)

\* the number of scored nights with a performance strictly below 70
LowNightCount ==
    Cardinality({i \in 1..Len(ScoredNights) :
                    ScoredNights[i].sleep_performance_percentage < 70})

\* C10: the low sleep-performance pattern is in the report exactly when at
\* least 3 scored nights have a performance < 70, and it reports that number
\* and the number of scored nights.
C10_LowPerformance ==
    SleepReported =>
        /\ Flagged("PerformanceBelow70") <=> LowNightCount >= 3
        /\ Flagged("PerformanceBelow70") =>
              /\ PatternOf("PerformanceBelow70").a = LowNightCount
              /\ PatternOf("PerformanceBelow70").b = Len(ScoredNights)

\* three low nights among more scored nights, one at exactly 70, one unscored
C10_Witness ==
    /\ SleepReported
    /\ Flagged("PerformanceBelow70")
    /\ PatternOf("PerformanceBelow70").a = 3
    /\ PatternOf("PerformanceBelow70").b = 4
    /\ \E i \in 1..Len(records) : records[i].sleep_performance_percentage = 70
    /\ \E i \in 1..Len(records) : records[i].sleep_performance_percentage = Absent

----------------------------------------------------------------------------
(* Properties of the ranges of the recovery and strain reports.            *)

StrainReported ==
    pc = "done" /\ tool = "strain" /\ result.body.msg = "Strain trend"

\* the values of a field over the records in which it is present
ScoredValues(field) ==
    {records[i][field] : i \in {j \in 1..Len(records) : records[j][field] # Absent}}

Least(S) == CHOOSE x \in S : \A y \in S : x <= y
Greatest(S) == CHOOSE x \in S : \A y \in S : y <= x

\* C7: the range of the recovery report and the range of the strain report
\* are the minimum and the maximum of the scored values of the window.
C7_RangeIsMinMax ==
    /\ RecoveryReported =>
          /\ result.body.minRec = Least(ScoredValues("recovery_score"))
          /\ result.body.maxRec = Greatest(ScoredValues("recovery_score"))
    /\ StrainReported =>
          /\ result.body.minStrain = Least(ScoredValues("strain"))
          /\ result.body.maxStrain = Greatest(ScoredValues("strain"))

\* a recovery report whose window has an unscored record and scores 100 and 50
C7_Witness ==
    /\ RecoveryReported
    /\ \E i \in 1..Len(records) : records[i].recovery_score = Absent
    /\ result.body.minRec = 50
    /\ result.body.maxRec = 100

----------------------------------------------------------------------------
(* Properties of the multi-day strain report.                              *)

\* the strains of the scored days of the window, newest first
ScoredStrains == Present(records, "strain")

\* the lengths of the runs of adjacent scored days with strain above 14
HighRunLengths ==
    {len \in 1..Len(ScoredStrains) :
        \E i \in 1..(Len(ScoredStrains) - len + 1) :
            \A k \in i..(i + len - 1) : ScoredStrains[k] > 140}

LongestHighRun ==
    IF HighRunLengths = {} THEN 0
    ELSE CHOOSE len \in HighRunLengths : \A other \in HighRunLengths : other <= len

\* C11: 'consecutive high-strain days' is in the strain report exactly when
\* the longest run of adjacent scored days with strain strictly above 14 has
\* length >= 3, and the number it reports is the length of that longest run.
C11_ConsecutiveHigh ==
    StrainReported =>
        /\ Flagged("ConsecutiveHighStrain") <=> LongestHighRun >= 3
        /\ Flagged("ConsecutiveHighStrain") =>
              PatternOf("ConsecutiveHighStrain").a = LongestHighRun

\* a run of three high days after a day of exactly 14 and an unscored day
C11_Witness ==
    /\ StrainReported
    /\ Flagged("ConsecutiveHighStrain")
    /\ PatternOf("ConsecutiveHighStrain").a = 3
    /\ Len(records) = 5
    /\ records[1].strain = 140
    /\ records[2].strain = Absent

\* the number of scored days with strain below 4
RestDayCount == Cardinality({i \in 1..Len(ScoredStrains) : ScoredStrains[i] < 40})

\* C12: 'No rest days' is in the strain report exactly when no scored day has
\* strain below 4 and there are at least 7 scored days.
C12_NoRestDays ==
    StrainReported =>
        (Flagged("NoRestDays") <=> (RestDayCount = 0 /\ Len(ScoredStrains) >= 7))

\* a window of 7 scored days, none below 4, is flagged
C12_Witness ==
    /\ StrainReported
    /\ Len(ScoredStrains) = 7
    /\ RestDayCount = 0
    /\ Flagged("NoRestDays")

\* a window of 5 scored days, none below 4, is reported without the flag
C12_FiveDaysUnflagged ==
    /\ StrainReported
    /\ Len(ScoredStrains) = 5
    /\ RestDayCount = 0
    /\ ~Flagged("NoRestDays")

----------------------------------------------------------------------------
(* Windows without data.                                                   *)

\* the field whose presence makes a record count as a scored day of the tool
ScoreField ==
    [recovery |-> "recovery_score", sleep |-> "sleep_performance_percentage",
     strain |-> "strain"]

\* the messages of a tool for an empty window and for a window without scores
NoDataMessage ==
    [recovery |-> "No recovery data available.", sleep |-> "No sleep data available.",
     strain |-> "No strain data available."]
NoScoredMessage ==
    [recovery |-> "No scored recovery data in this range.",
     sleep |-> "No scored sleep data in this range.",
     strain |-> "No scored cycles in this range."]

\* the number of records of the fetched window that are scored for the tool
ScoredCount == Len(Present(records, ScoreField[tool]))

\* C13: a multi-day call whose window has no records, or no scored record,
\* resolves to a normal result that carries the no-data message and nothing
\* else: no summary statistics, no daily lines and no patterns.
C13_NoDataIsMessageOnly ==
    (pc = "done" /\ ScoredCount = 0) =>
        /\ result.isError = FALSE
        /\ result.body = [msg |-> IF Len(records) = 0 THEN NoDataMessage[tool]
                                  ELSE NoScoredMessage[tool]]

\* a sleep window of three nights, none of them scored
C13_Witness ==
    /\ pc = "done"
    /\ tool = "sleep"
    /\ Len(records) = 3
    /\ ScoredCount = 0
    /\ result = toolResult([msg |-> "No scored sleep data in this range."])

\* the other no-data cases: an empty recovery window, an unscored strain window
C13_EmptyRecoveryWindow ==
    pc = "done" /\ tool = "recovery" /\ records = <<>>
        /\ result = toolResult([msg |-> "No recovery data available."])
C13_UnscoredStrainWindow ==
    pc = "done" /\ tool = "strain" /\ Len(records) = 2 /\ ScoredCount = 0
        /\ result = toolResult([msg |-> "No scored cycles in this range."])

----------------------------------------------------------------------------
(* The window a multi-day tool reports on.                                 *)

\* a multi-day call has ended its page loop
PagedDone == pc = "done" /\ paged.limit > 0

\* C14: whatever the upstream answers to the page requests, a multi-day
\* call for N days works on at most N records, and the number of scored
\* days it counts and reports is at most N.
C14_CountWithinWindow ==
    PagedDone =>
        /\ Len(records) <= paged.limit
        /\ result.body.msg \in {"Recovery trend", "Sleep trend", "Strain trend"} =>
              /\ result.body.count <= paged.limit
              /\ result.body.count = ScoredCount
              /\ Len(result.body.dailyLines) = result.body.count

\* a call for 2 days was answered more records than it asked for, three of
\* them scored, and reports 2 days
C14_Witness ==
    /\ PagedDone
    /\ paged.limit = 2
    /\ Len(paged.all) > 2
    /\ Len(Present(paged.all, ScoreField[tool])) >= 3
    /\ result.body.msg = "Recovery trend"
    /\ result.body.count = 2

----------------------------------------------------------------------------
(* Properties of WhoopClient.request.                                      *)

Trace(c) == calls[c].trace

\* the positions of the data fetches in the trace of a call
Fetches(c) == {i \in 1..Len(Trace(c)) : Trace(c)[i].e = "fetch"}

\* what holds of the trace of every call at every moment
C19_TwoAttempts ==
    \A c \in Calls :
        /\ Cardinality(Fetches(c)) <= 2
        /\ \A i, j \in Fetches(c) : i < j =>
              /\ Trace(c)[i + 1].e = "status" /\ Trace(c)[i + 1].a = 401
              /\ \E k \in (i + 2)..(j - 1) :
                    Trace(c)[k].e = "login" /\ Trace(c)[k].a # Absent
        /\ \A i \in 1..Len(Trace(c)) :
              (/\ Trace(c)[i].e = "status"
               /\ Trace(c)[i].a # 200
               /\ Trace(c)[i].a # 401 \/ \E j \in Fetches(c) : j < i - 1)
              => (i = Len(Trace(c)) /\ calls[c].pc = "rejected")
        /\ Len(Trace(c)) <= 9

\* every step of a call in progress adds an event to its trace or ends it
C19_EveryStepCounts ==
    \A c \in Calls :
        (calls[c].pc \in {"login", "retry", "send", "await"} /\ calls'[c] # calls[c])
        => \/ Len(calls'[c].trace) = Len(calls[c].trace) + 1
           \/ calls'[c].pc = "rejected"

\* C19: a call of request makes at most two data fetches; the second only
\* after a 401 on the first and a successful login in between; a 401 on the
\* second attempt, or another non-OK status on either, ends the call with
\* an error; and a call ends after at most 9 events, each of its steps
\* adding one.
C19_RefreshAtMostOnce == []C19_TwoAttempts /\ [][C19_EveryStepCounts]_vars

\* a call whose second attempt was answered 401 as well, and was rejected
C19_Witness ==
    \E c \in Calls :
        /\ Cardinality(Fetches(c)) = 2
        /\ Trace(c)[Len(Trace(c))] = Event("status", 401, 0, 0)
        /\ calls[c].pc = "rejected"
        /\ calls[c].retried

C20_ExpiringToken ==
    \E c \in Calls :
        /\ Len(Trace(c)) >= 3
        /\ Trace(c)[1].e = "check" /\ Trace(c)[1].b = 4 /\ Trace(c)[1].a # Absent
        /\ Trace(c)[2].e = "login" /\ Trace(c)[2].a # Absent
        /\ Trace(c)[3].e = "fetch" /\ Trace(c)[3].a = Trace(c)[2].a

----------------------------------------------------------------------------
(* State shared by invocations.  Call c is here a fetch of invocation c.   *)

\* C17 as stated: no invocation reads state another invocation has written,
\* so every token a call sends was obtained by a login of that call.
C17_NoSharedState ==
    \A c \in Calls : \A i \in Fetches(c) : Trace(c)[i].b = c

\* what a step may change: the frame of one call, and the client's token
\* only by a login of the call that takes the step
C17_StepOfOneCall ==
    /\ \A c, d \in Calls : c # d => (calls'[c] = calls[c] \/ calls'[d] = calls[d])
    /\ tokenData' # tokenData =>
          \E c \in Calls : /\ calls[c].pc = "login"
                           /\ calls'[c] # calls[c]
                           /\ tokenData'.by = c
    /\ UNCHANGED <<upstream, config>>

\* C17, amended: invocations share one piece of mutable state, the client's
\* token.  Every step changes the frame of at most one call and never the
\* upstream's data or the credentials, and the token is replaced only by a
\* login of the call that takes the step; the token is read by every call.
C17_OnlyTokenShared == [][C17_StepOfOneCall]_vars

\* while the call that logged in is still in progress, the other call has
\* sent the token that login obtained
C17_Witness ==
    \E c, d \in Calls :
        /\ c # d
        /\ calls[d].pc = "await"
        /\ \E k \in 1..Len(Trace(d)) :
              /\ Trace(d)[k].e = "login"
              /\ \E i \in Fetches(c) : Trace(c)[i].b = d /\ Trace(c)[i].a = Trace(d)[k].a

----------------------------------------------------------------------------
(* Properties of the handlers and their fetches.                           *)

\* a handler has produced its result from the fetches in `settled`
HandlerDone == pc = "done" /\ Len(settled) > 0

\* a supplementary, an essential fetch of the call was rejected
SupplementaryRejected ==
    \E i \in 1..Len(settled) :
        Supplementary(tool, args, settled[i].fetch) /\ settled[i].kind = "rejected"
EssentialRejected ==
    \E i \in 1..Len(settled) :
        ~Supplementary(tool, args, settled[i].fetch) /\ settled[i].kind = "rejected"

\* what was delivered, with a null payload in place of every rejection of a
\* supplementary fetch
AsIfAbsent ==
    {IF Supplementary(tool, args, settled[i].fetch) /\ settled[i].kind = "rejected"
     THEN Outcome(settled[i].fetch, "null", 0) ELSE settled[i] : i \in 1..Len(settled)}

\* C15: when a supplementary fetch is rejected and no essential one, the
\* handler still waits for all its fetches and resolves to what it makes of
\* the same deliveries with the supplementary payload null, in whatever
\* order the fetches settled; it is a normal result when the other payloads
\* are as expected.
C15_SupplementaryFailureIsAbsence ==
    (HandlerDone /\ SupplementaryRejected /\ ~EssentialRejected) =>
        /\ FirstFetches(tool, args) \subseteq {settled[i].fetch : i \in 1..Len(settled)}
        /\ handler(tool, args, AsIfAbsent).kind = "return" =>
              result = handler(tool, args, AsIfAbsent).value
        /\ (\A i \in 1..Len(settled) : settled[i].kind \in {"data", "rejected"}) =>
              /\ handler(tool, args, AsIfAbsent).kind = "return"
              /\ ~result.isError

\* single-day strain: the deep dive was rejected first, the widget last,
\* and the report lists the workouts without a score
C15_Witness ==
    /\ HandlerDone
    /\ tool = "strain" /\ args.days = 1
    /\ Len(settled) = 3
    /\ settled[1] = Outcome("deepDiveStrain", "rejected", 0)
    /\ settled[2] = Outcome("workoutsV2", "data", 1)
    /\ settled[3] = Outcome("widgetOverview", "rejected", 0)
    /\ ~result.isError
    /\ result.body.strainScore = "none"
    /\ Len(result.body.activities) > 0

\* the rejected supplementary fetch of the other handlers
C15_RecoveryDeepDiveRejected ==
    /\ HandlerDone /\ tool = "recovery" /\ args.detail = "full"
    /\ settled = <<Outcome("recoveryV2", "data", 1), Outcome("deepDiveRecovery", "rejected", 0)>>
    /\ ~result.isError /\ result.body.msg = "Recovery" /\ result.body.contributors = Absent
C15_SleepLastNightRejected ==
    /\ HandlerDone /\ tool = "sleep"
    /\ settled = <<Outcome("sleepLastNight", "rejected", 0), Outcome("sleepV2", "data", 1)>>
    /\ ~result.isError /\ result.body.msg = "Sleep" /\ result.body.sleepStress = Absent
C15_HealthTabRejected ==
    /\ HandlerDone /\ tool = "healthspan"
    /\ settled = <<Outcome("healthspan", "data", 1), Outcome("healthTab", "rejected", 0)>>
    /\ ~result.isError /\ result.body.msg = "Healthspan" /\ result.body.healthMetrics = Absent

\* C16: a handler never rejects.  It resolves to a normal result, or to an
\* error result made of 'Error: ' and the message of the failure: that of
\* the rejected essential fetch, or that of the exception a null essential
\* payload raises.
C16_HandlersResolve ==
    /\ pc # "rejected"
    /\ HandlerDone =>
          /\ result.isError =>
                /\ result.body.prefix = "Error: "
                /\ result.body.msg \in {"WHOOP API 500", "TypeError"}
          /\ ~result.isError => DOMAIN result.body # {"prefix", "msg"}
          /\ EssentialRejected => result = toolError("WHOOP API 500")
          /\ (\A i \in 1..Len(settled) : settled[i].kind = "data") => ~result.isError
          /\ (~EssentialRejected /\ \E i \in 1..Len(settled) :
                  ~Supplementary(tool, args, settled[i].fetch) /\ settled[i].kind = "null")
             => result = toolError("TypeError")

\* the essential fetch of single-day recovery was rejected after the deep
\* dive had arrived
C16_Witness ==
    /\ HandlerDone
    /\ tool = "recovery" /\ args.days = 1
    /\ settled = <<Outcome("deepDiveRecovery", "data", 1), Outcome("recoveryV2", "rejected", 0)>>
    /\ result = toolError("WHOOP API 500")

\* a null payload made the overview handler throw while formatting
C16_ProcessingThrows ==
    /\ HandlerDone
    /\ tool = "overview"
    /\ settled = <<Outcome("home", "data", 1), Outcome("widgetOverview", "null", 0)>>
    /\ result = toolError("TypeError")

\* the records the upstream holds for the requested date
OnRequestedDate ==
    SelectSeq(UpstreamOf(tool),
              LAMBDA r : (IF tool = "recovery" THEN r.created_at ELSE r.start) = dateOf(args))

\* C18: a single-day call of whoop_get_recovery or whoop_get_sleep reports
\* the record of the requested date, and answers that no data is available
\* for this date when the upstream holds no record of that date.
C18_ReportsRequestedDate ==
    (HandlerDone /\ tool \in {"recovery", "sleep"} /\ args.days = 1 /\ ~result.isError) =>
        IF OnRequestedDate = <<>>
        THEN result.body.msg \in {"No recovery data available for this date.",
                                  "No sleep data available for this date."}
        ELSE /\ result.body.msg \in {"Recovery", "Sleep"}
             /\ result.body.date = dateOf(args)

\* ---------------------------------------------------------------------------
\* C21

\* what holds whenever a call is about to build, or has built, its
\* Authorization header
C21_TokenAtHeader ==
    /\ tokenData # NoToken <=> issued >= 1
    /\ \A c \in Calls :
          /\ calls[c].pc = "send" => tokenData # NoToken
          /\ calls[c].error # "TypeError"
          /\ \A i \in Fetches(c) :
                /\ Trace(c)[i].a # Absent
                /\ Trace(c)[i].n >= 1
                /\ Trace(c)[i].a <= Trace(c)[i].n

\* a token once set is replaced by a token only
C21_TokenStays == tokenData # NoToken => tokenData' # NoToken

\* C21: with two calls of request interleaved at every await, a data fetch
\* is sent only after some login of the client has succeeded: tokenData is
\* not null when the Authorization header is built, the token sent is one
\* the auth endpoint issued, and tokenData, once set, never becomes null.
C21_TokenBeforeFetch == []C21_TokenAtHeader /\ [][C21_TokenStays]_vars

\* two calls started with no token and both logged in; one of them sent its
\* fetch with the token the other's login had installed in the meantime
C21_Witness ==
    \E c, d \in Calls :
        /\ c # d
        /\ Len(Trace(c)) >= 3
        /\ Len(Trace(d)) >= 2
        /\ Trace(c)[1] = Event("check", Absent, 0, 0)
        /\ Trace(d)[1] = Event("check", Absent, 0, 0)
        /\ Trace(c)[2].e = "login" /\ Trace(c)[2].a # Absent
        /\ Trace(c)[3].e = "fetch" /\ Trace(c)[3].b = d

\* ---------------------------------------------------------------------------
\* C22

\* the messages login() throws with
LoginErrors == {"Email and password required", "Login failed", "No auth result"}

\* the last event of the trace of a call
LastEvent(call) == call.trace[Len(call.trace)]

\* a step in which a login of call c throws
LoginThrows(c) ==
    /\ calls'[c] # calls[c]
    /\ calls'[c].pc = "rejected"
    /\ calls'[c].error \in LoginErrors

C22_FailedLoginKeepsToken ==
    /\ \A c \in Calls :
          LoginThrows(c) =>
              /\ tokenData' = tokenData
              /\ issued' = issued
              /\ LastEvent(calls'[c]) = Event("login", Absent, 0, 0)
    /\ tokenData' # tokenData =>
          \E c \in Calls :
              /\ calls[c].pc = "login"
              /\ config = "complete"
              /\ calls'[c].pc \in {"send", "retry"}
              /\ tokenData'.accessToken = issued + 1
              /\ tokenData'.expiresAt \in {now + e : e \in ExpiresIns}
              /\ LastEvent(calls'[c]) = Event("login", tokenData'.accessToken, 0, issued')

\* C22: a login that throws (credentials missing, non-OK status, no
\* AuthenticationResult) leaves tokenData as it was, and tokenData changes
\* only in a step in which a login succeeds, to the token just issued.
C22_OnlySuccessReplaces == [][C22_FailedLoginKeepsToken]_vars

\* a login failed while the client held a token of an earlier login, and
\* the client holds it still
C22_Witness ==
    \E c \in Calls :
        /\ calls[c].pc = "rejected"
        /\ calls[c].error \in {"Login failed", "No auth result"}
        /\ LastEvent(calls[c]) = Event("login", Absent, 0, 0)
        /\ tokenData # NoToken
        /\ tokenData.by # c

\* the credentials are missing: the login throws before any request
C22_MissingCredentials ==
    \E c \in Calls :
        /\ calls[c].pc = "rejected"
        /\ calls[c].error = "Email and password required"
        /\ tokenData = NoToken

\* ---------------------------------------------------------------------------
\* C23

\* the records of the pages received, in the order received
RECURSIVE ConcatPages(_)
ConcatPages(ps) ==
    IF ps = <<>> THEN <<>>
    ELSE ConcatPages(SubSeq(ps, 1, Len(ps) - 1)) \o ps[Len(ps)].records

\* the number of records collected when request i is sent
CollectedBefore(i) == Len(ConcatPages(SubSeq(paged.pages, 1, i - 1)))

\* a call of a list method is in progress or has ended
ListCall == pc \in {"fetching", "fetched", "threw"}

\* twice the limit of the call, and twice the batch size of a request
TwiceLimit == 2 * paged.limit + paged.frac
TwiceBatch(r) == 2 * r.limit + r.half

\* C23: fetchPaginated returns at most `limit` records, the first ones of
\* the pages received, in their order; request i asks for
\* min(limit - collected, 25) records, the first request carries no token
\* and every later one the next_token of the page before it; for
\* limit <= 0 no request is made and the result is empty.
C23_PrefixInBatches ==
    ListCall =>
        /\ pc = "fetched" =>
              /\ 2 * Len(records) <= IF TwiceLimit < 0 THEN 0 ELSE TwiceLimit
              /\ Len(records) <= Len(ConcatPages(paged.pages))
              /\ records = SubSeq(ConcatPages(paged.pages), 1, Len(records))
              /\ Len(records) < Len(ConcatPages(paged.pages)) => Len(records) = paged.limit
        /\ \A i \in 1..Len(paged.requests) :
              LET left == TwiceLimit - 2 * CollectedBefore(i)
              IN  /\ TwiceBatch(paged.requests[i]) = IF left < 50 THEN left ELSE 50
                  /\ TwiceBatch(paged.requests[i]) > 0
                  /\ i = 1 => paged.requests[i].nextToken = Absent
                  /\ i > 1 => /\ paged.requests[i].nextToken # Absent
                              /\ paged.requests[i].nextToken = paged.pages[i - 1].next_token
        /\ Len(paged.pages) <= Len(paged.requests)
        /\ TwiceLimit <= 0 => (paged.requests = <<>> /\ pc = "fetched" /\ records = <<>>)

\* a call for 26 records: the first request asked for 25, the second, with
\* the token of the first page, for the one left; the upstream sent more
\* than asked and the first 26 were returned
C23_Witness ==
    /\ pc = "fetched"
    /\ paged.limit = 26 /\ paged.frac = 0
    /\ Len(paged.requests) = 2
    /\ paged.requests[1] = [limit |-> 25, half |-> 0, nextToken |-> Absent]
    /\ paged.requests[2] = [limit |-> 1, half |-> 0, nextToken |-> 26]
    /\ Len(ConcatPages(paged.pages)) = 27
    /\ records = [i \in 1..26 |-> i]

\* a call with limit 0 returned at once
C23_NothingWanted ==
    /\ pc = "fetched"
    /\ paged.limit = 0 /\ paged.frac = 0
    /\ paged.requests = <<>>
    /\ records = <<>>

\* ---------------------------------------------------------------------------
\* C24

\* the statement as made: at most `limit` page requests for limit >= 1
C24_AtMostLimitRequests ==
    (ListCall /\ paged.limit >= 1) => 2 * Len(paged.requests) <= TwiceLimit

\* at most ceil(limit) page requests
C24_AtMostCeilRequests ==
    (ListCall /\ paged.limit >= 1) =>
        /\ Len(paged.requests) <= paged.limit + paged.frac
        /\ Len(paged.requests) <= Len(paged.all) + 1

\* a page that arrives ends the loop or adds a record and a request
C24_PageEndsOrAdds ==
    (pc = "fetching" /\ paged' # paged) =>
        \/ pc' \in {"fetched", "threw"} /\ paged'.requests = paged.requests
        \/ /\ pc' = "fetching"
           /\ Len(paged'.all) > Len(paged.all)
           /\ Len(paged'.requests) = Len(paged.requests) + 1
           /\ wanted(paged.limit, paged.frac, paged'.all)

\* C24 (amended): every iteration of the page loop adds at least one
\* record or ends the loop, so the loop makes at most ceil(limit) page
\* requests for limit >= 1: `limit` of them for a whole limit, one more
\* than its whole part for a limit that is not whole.
C24_LoopTerminates == []C24_AtMostCeilRequests /\ [][C24_PageEndsOrAdds]_vars

\* a call with limit 1.5 made two requests, each answered one record
C24_Witness ==
    /\ pc = "fetched"
    /\ paged.limit = 1 /\ paged.frac = 1
    /\ Len(paged.requests) = 2
    /\ paged.requests[2].limit = 0 /\ paged.requests[2].half = 1
    /\ Len(paged.all) = 2
    /\ Len(records) = 1

\* a call with limit 3 made three requests
C24_WholeLimit ==
    /\ pc = "fetched"
    /\ paged.limit = 3 /\ paged.frac = 0
    /\ Len(paged.requests) = 3

\* ---------------------------------------------------------------------------
\* C25

CalendarDone == pc = "done" /\ tool = "calendar"

Rows == result.body.rows

\* the column of day k, Monday = 0
ColumnOf(k) == (upCalendar.firstDayOfWeek + 6 + k - 1) % 7

\* the cells of rows 1 .. r, one row after the other
RECURSIVE CellsUpTo(_)
CellsUpTo(r) == IF r = 0 THEN <<>> ELSE CellsUpTo(r - 1) \o Rows[r]

IsDayCell(c) == c.day > 0
IsMarked(c) == c.mark \in {"green", "yellow", "red"}

\* C25: the grid lists the days 1..daysInMonth once each, in order; day k
\* stands in column (monBasedFirst + k - 1) mod 7 of its row, Monday first;
\* a row ends with a Sunday cell or with the last day and nowhere else, so
\* it holds at most 7 cells; and the cells marked with a colour are at most
\* as many as the days the summary line counts.
C25_GridOfTheMonth ==
    CalendarDone =>
        LET cells == CellsUpTo(Len(Rows))
            dayCells == SelectSeq(cells, IsDayCell)
        IN  /\ dayCells = [k \in 1..upCalendar.daysInMonth |->
                              [day |-> k, mark |-> dayCells[k].mark]]
            /\ \A r \in 1..Len(Rows) :
                  /\ Len(Rows[r]) >= 1
                  /\ Len(Rows[r]) <= 7
                  /\ \A j \in 1..Len(Rows[r]) :
                        LET c == Rows[r][j]
                        IN  /\ IsDayCell(c) => j - 1 = ColumnOf(c.day)
                            /\ ~IsDayCell(c) => (r = 1 /\ j - 1 < ColumnOf(1))
                            /\ (IsDayCell(c) /\ (ColumnOf(c.day) = 6
                                                 \/ c.day = upCalendar.daysInMonth))
                               <=> (IsDayCell(c) /\ j = Len(Rows[r]))
            /\ Len(SelectSeq(cells, IsMarked)) <= result.body.summary.totalDays

\* a month of 31 days that begins on a Sunday: the first row holds day 1
\* alone in the last column, the sixth row days 30 and 31 and the month has
\* fewer marked cells than days counted
C25_Witness ==
    /\ CalendarDone
    /\ upCalendar.daysInMonth = 31 /\ upCalendar.firstDayOfWeek = 0
    /\ Len(Rows) = 6
    /\ Len(Rows[1]) = 7 /\ Rows[1][7].day = 1 /\ Rows[1][6] = PadCell
    /\ Len(Rows[6]) = 2 /\ Rows[6][2].day = 31
    /\ Len(SelectSeq(CellsUpTo(Len(Rows)), IsMarked)) >= 1
    /\ Len(SelectSeq(CellsUpTo(Len(Rows)), IsMarked)) < result.body.summary.totalDays

\* ---------------------------------------------------------------------------
\* C26

\* the days of weekday w that have data, and their states
DaysWithData(w) ==
    {k \in 1..upCalendar.daysInMonth :
        ColumnOf(k) = w /\ dayMapSets(upCalendar.days_of_month, k) # {}}

InStateOn(w, st) ==
    Cardinality({k \in DaysWithData(w) : dayMapGet(upCalendar.days_of_month, k) = st})

\* round((100 * high + 50 * medium + 17 * low) / count), for a weekday with data
ScoreOf(w) ==
    LET sum == 100 * InStateOn(w, "HIGH_RECOVERY") + 50 * InStateOn(w, "MEDIUM_RECOVERY")
                 + 17 * InStateOn(w, "LOW_RECOVERY")
        count == Cardinality(DaysWithData(w))
    IN  (2 * sum + count) \div (2 * count)

WeekdaysWithData == {w \in 0..6 : DaysWithData(w) # {}}

C26_FourWeekdays ==
    /\ CalendarDone
    /\ Cardinality(WeekdaysWithData) = 4
    /\ \E v, w \in WeekdaysWithData : ScoreOf(v) - ScoreOf(w) > 15
    /\ ~result.body.patterns.emitted

\* seven weekdays with data, the scores apart but by 15 at most: no section
C26_CloseScores ==
    /\ CalendarDone
    /\ Cardinality(WeekdaysWithData) = 7
    /\ \E v, w \in WeekdaysWithData : ScoreOf(v) - ScoreOf(w) \in 1..15
    /\ ~result.body.patterns.emitted

\* ---------------------------------------------------------------------------
\* C27

\* the workouts the upstream holds
Sessions == {upWorkouts[i] : i \in 1..Len(upWorkouts)}

\* a single-day strain report, and a multi-day one
SingleDayStrain ==
    /\ pc = "done" /\ tool = "strain" /\ args # NoArgs
    /\ ~result.isError /\ result.body.msg = "Strain"

MultiDayStrain ==
    pc = "done" /\ tool = "strain" /\ args = NoArgs /\ result.body.msg = "Strain trend"

\* the scored cycles of the window, in the order of the daily lines
ScoredCycles == SelectSeq(records, LAMBDA c : c.strain # Absent)

\* the workout w is listed on the daily line of the j-th scored cycle
ListedUnder(w, j) ==
    \E i \in 1..Len(result.body.dailyLines[j].workoutNames) :
        result.body.dailyLines[j].workoutNames[i] = w.sport_name

\* the start of the workout lies in the range of the j-th scored cycle
InCycle(w, j) ==
    /\ ScoredCycles[j].start <= w.start
    /\ w.start <= (IF ScoredCycles[j].end = Absent THEN Now ELSE ScoredCycles[j].end)

\* the two rules by themselves
C27_RangeRules ==
    /\ SingleDayStrain =>
          \A w \in Sessions :
              (\E i \in 1..Len(result.body.activities) : result.body.activities[i] = w.start)
              <=> (24 * args.date - 24 <= w.start /\ w.start <= 24 * args.date + 24)
    /\ MultiDayStrain =>
          /\ Len(result.body.dailyLines) = Len(ScoredCycles)
          /\ \A w \in Sessions : \A j \in 1..Len(ScoredCycles) :
                ListedUnder(w, j) <=> InCycle(w, j)

\* every workout is on one daily line at most
C27_UnderOneCycle ==
    MultiDayStrain =>
        \A w \in Sessions :
            Cardinality({j \in 1..Len(result.body.dailyLines) : ListedUnder(w, j)}) <= 1

\* C27: in single-day mode a workout is listed iff its start lies within
\* 24 hours before and after the start of the requested day; in multi-day
\* mode it is listed under a scored cycle iff its start lies between the
\* start and the end of the cycle (the current time for a cycle without
\* end); and every workout is listed under at most one cycle.
C27_WorkoutAssociation == C27_RangeRules /\ C27_UnderOneCycle

\* a workout that starts when one scored cycle ends and the next starts is
\* on the daily lines of both
C27_ListedTwice ==
    /\ MultiDayStrain
    /\ \E w \in Sessions : \E j, k \in 1..Len(ScoredCycles) :
          j # k /\ ListedUnder(w, j) /\ ListedUnder(w, k) /\ InCycle(w, j) /\ InCycle(w, k)

\* a workout 24 hours before the start of the day is listed, one 25 hours
\* before it is not
C27_GenerousRange ==
    /\ SingleDayStrain
    /\ args.date = 41
    /\ result.body.activities = <<960>>
    /\ Len(upWorkouts) = 2 /\ upWorkouts[2].start = 959

\* ---------------------------------------------------------------------------
\* C28

InBedRendered == pc = "done" /\ tool = "sleep" /\ result.body.msg = "In bed"

\* the minutes a text H:MM stands for
MinutesOf(text) == 60 * text.h + 10 * text.mm[1] + text.mm[2]

\* C28: msToHours(ms) renders H:MM with H = floor(ms / 3600000) and MM two
\* digits between 00 and 59, never 60, and the value rendered is less than
\* a minute away from the duration.
C28_HoursAndMinutes ==
    InBedRendered =>
        LET text == result.body.inBed
            away == MinutesOf(text) * 60000 - upDuration
        IN  /\ text.h * 3600000 <= upDuration
            /\ upDuration < (text.h + 1) * 3600000
            /\ Len(text.mm) = 2
            /\ text.mm[1] \in 0..9 /\ text.mm[2] \in 0..9
            /\ 10 * text.mm[1] + text.mm[2] \in 0..59
            /\ -60000 < away /\ away < 60000

\* 59 minutes and 30 seconds are rendered 0:60
C28_SixtyMinutes ==
    /\ InBedRendered
    /\ upDuration = 3570000
    /\ result.body.inBed = [h |-> 0, mm |-> <<6, 0>>]

====
